---- MODULE Spec2Model ----
(***************************************************************************)
(* Model of the PWM calibration engine of homeHAB's hardware bridge        *)
(* (src/main/python/dac_bridge/pwm_calibration.py): the hardcoded default  *)
(* tables, the inverse interpolation _pwm_for_voltage and the              *)
(* CalibrationManager with its MQTT table updates.                         *)
(*                                                                         *)
(* Numbers.  Python floats are modelled as exact rationals.  A voltage is  *)
(* an integer count of 1/VoltScale volt, a requested percent an integer    *)
(* count of 1/PercentScale percent, and a returned duty cycle a reduced    *)
(* fraction num/den of a percent.  Rounding of IEEE doubles is therefore   *)
(* not part of the model.                                                  *)
(***************************************************************************)
EXTENDS Integers, Sequences, FiniteSets, TLC

\* Fixed-point resolutions: a quarter of a millivolt (so that a target voltage
\* can lie strictly between two table voltages that differ by less than the
\* 0.001 V tolerance) and a two-thousandth of a percent.
VoltScale == 4 * 1000
PercentScale == 2 * 1000

\* Largest number of entries of a JSON object payload.
MaxEntries == 3

Abs(x) == IF x < 0 THEN 0 - x ELSE x
Min2(a, b) == IF a <= b THEN a ELSE b
Max2(a, b) == IF a >= b THEN a ELSE b

SetMin(S) == CHOOSE x \in S : \A y \in S : x <= y
SetMax(S) == CHOOSE x \in S : \A y \in S : x >= y

RECURSIVE Gcd(_, _)
Gcd(a, b) == IF b = 0 THEN a ELSE Gcd(b, a % b)

\* v volts and m/10000 volt, in voltage units
Volt(v, m) == v * VoltScale + (m * VoltScale) \div 10000

(***************************************************************************)
(* Return values.  Every call leaves a record of one shape in ret:         *)
(*   kind "duty"  - a number num/den (a float or an int in the code)       *)
(*   kind "bool"  - ok                                                     *)
(*   kind "raise" - the exception exc left the call                        *)
(*   kind "json"  - a string; its content is in the variable out           *)
(***************************************************************************)
RetNone == [kind |-> "none", ok |-> FALSE, exc |-> "", num |-> 0, den |-> 1]
RetBool(b) == [kind |-> "bool", ok |-> b, exc |-> "", num |-> 0, den |-> 1]
RetRaise(e) == [kind |-> "raise", ok |-> FALSE, exc |-> e, num |-> 0, den |-> 1]
RetJson == [kind |-> "json", ok |-> FALSE, exc |-> "", num |-> 0, den |-> 1]

\* the number n/d as a reduced fraction with a positive denominator (d # 0)
RetNumber(n, d) ==
    LET g == Gcd(Abs(n), Abs(d))
        s == IF d < 0 THEN 0 - 1 ELSE 1
    IN  [kind |-> "duty", ok |-> FALSE, exc |-> "",
         num |-> (s * n) \div g, den |-> (s * d) \div g]

(***************************************************************************)
(* The hardcoded tables: duty cycle (percent) -> measured voltage.         *)
(***************************************************************************)
PWM_CALIBRATION_GPIO18 ==
    (0 :> Volt(0, 0)) @@ (3 :> Volt(0, 100)) @@ (4 :> Volt(0, 200)) @@
    (5 :> Volt(0, 3700)) @@ (6 :> Volt(0, 6800)) @@ (7 :> Volt(0, 9200)) @@
    (8 :> Volt(1, 2300)) @@ (9 :> Volt(1, 3400)) @@ (10 :> Volt(1, 4800)) @@
    (15 :> Volt(2, 600)) @@ (20 :> Volt(2, 6300)) @@ (25 :> Volt(3, 1900)) @@
    (30 :> Volt(3, 7700)) @@ (35 :> Volt(4, 3200)) @@ (40 :> Volt(4, 8900)) @@
    (45 :> Volt(5, 4300)) @@ (50 :> Volt(5, 9900)) @@ (55 :> Volt(6, 5400)) @@
    (60 :> Volt(7, 900)) @@ (65 :> Volt(7, 6300)) @@ (70 :> Volt(8, 1900)) @@
    (75 :> Volt(8, 7200)) @@ (80 :> Volt(9, 2800)) @@ (85 :> Volt(9, 8200)) @@
    (90 :> Volt(10, 1700)) @@ (95 :> Volt(10, 1800)) @@ (100 :> Volt(10, 1900))

PWM_CALIBRATION_GPIO19 == PWM_CALIBRATION_GPIO18

PWM_CALIBRATION_LINEAR == (0 :> Volt(0, 0)) @@ (100 :> Volt(10, 0))

\* the tables the module-level helpers use
ACTIVE_CALIBRATION_GPIO18 == PWM_CALIBRATION_GPIO18
ACTIVE_CALIBRATION_GPIO19 == PWM_CALIBRATION_GPIO19

(***************************************************************************)
(* _pwm_for_voltage(target_voltage, calibration)                           *)
(***************************************************************************)
\* sorted(calibration.items(), key=lambda x: x[0]): the (pwm, voltage) pairs
\* by ascending pwm
RECURSIVE SortedItems(_)
SortedItems(calibration) ==
    IF DOMAIN calibration = {} THEN << >>
    ELSE LET k == SetMin(DOMAIN calibration)
             rest == [d \in (DOMAIN calibration) \ {k} |-> calibration[d]]
         IN  << <<k, calibration[k]>> >> \o SortedItems(rest)

\* the clamp with max() written for the inner min()
ClampTargetFromBelow(target_voltage, points) ==
    LET voltages == {points[i][2] : i \in 1..Len(points)}
    IN  Max2(SetMin(voltages), Max2(SetMax(voltages), target_voltage))

\* max(min_voltage, min(max_voltage, target_voltage)); min() and max() of an
\* empty list raise ValueError
ClampTarget(target_voltage, points) ==
    LET voltages == {points[i][2] : i \in 1..Len(points)}
    IN  Max2(SetMin(voltages), Min2(SetMax(voltages), target_voltage))

\* the loop with lower taken from the points strictly below the target
RECURSIVE ScanLoopStrict(_, _, _, _, _)
ScanLoopStrict(points, target, i, lower, upper) ==
    IF i > Len(points)
    THEN [lower |-> lower, upper |-> upper, broke |-> FALSE]
    ELSE LET p == points[i]
             lower1 == IF p[2] < target THEN p ELSE lower
         IN  IF p[2] >= target
             THEN [lower |-> lower1, upper |-> p, broke |-> TRUE]
             ELSE ScanLoopStrict(points, target, i + 1, lower1,
                                 IF i = Len(points) THEN p ELSE upper)

\* the loop without its break: upper ends at the last point at or above the
\* target
RECURSIVE ScanLoopNoBreak(_, _, _, _, _)
ScanLoopNoBreak(points, target, i, lower, upper) ==
    IF i > Len(points)
    THEN [lower |-> lower, upper |-> upper, broke |-> TRUE]
    ELSE LET p == points[i]
         IN  ScanLoopNoBreak(points, target, i + 1,
                             IF p[2] <= target THEN p ELSE lower,
                             IF p[2] >= target \/ i = Len(points) THEN p ELSE upper)

\* the loop with lower taken from the whole table: the last point at or
\* below the target, also when it comes after upper
RECURSIVE ScanLoopLowerAnywhere(_, _, _, _, _)
ScanLoopLowerAnywhere(points, target, i, lower, upper) ==
    LET below == {j \in 1..Len(points) : points[j][2] <= target}
        last == IF below = {} THEN lower ELSE points[SetMax(below)]
    IN  IF i > Len(points)
        THEN [lower |-> last, upper |-> upper, broke |-> FALSE]
        ELSE IF points[i][2] >= target
             THEN [lower |-> last, upper |-> points[i], broke |-> TRUE]
             ELSE ScanLoopLowerAnywhere(points, target, i + 1, lower,
                                        IF i = Len(points) THEN points[i] ELSE upper)

\* The for loop over enumerate(points), from the i-th point on (1-based), with
\* the current lower and upper points; broke tells that the loop ended in
\* its break.
RECURSIVE ScanLoop(_, _, _, _, _)
ScanLoop(points, target, i, lower, upper) ==
    IF i > Len(points)
    THEN [lower |-> lower, upper |-> upper, broke |-> FALSE]
    ELSE LET p == points[i]
             lower1 == IF p[2] <= target THEN p ELSE lower
         IN  IF p[2] >= target
             THEN [lower |-> lower1, upper |-> p, broke |-> TRUE]
             ELSE ScanLoop(points, target, i + 1, lower1,
                           IF i = Len(points) THEN p ELSE upper)

\* the edge case tested as equality of the two voltages
NearlyEqualExact(upper_v, lower_v) == upper_v = lower_v
\* the edge case not handled
NearlyEqualNever(upper_v, lower_v) == FALSE
\* abs(upper_v - lower_v) < 0.001
NearlyEqual(upper_v, lower_v) == Abs(upper_v - lower_v) * 1000 < VoltScale

\* the interpolation with the ratio measured from the upper voltage
InterpolateFromUpper(lower, upper, target) ==
    IF NearlyEqual(upper[2], lower[2])
    THEN RetNumber(lower[1], 1)
    ELSE IF upper[2] - lower[2] = 0
         THEN RetRaise("ZeroDivisionError")
         ELSE RetNumber(lower[1] * (upper[2] - lower[2])
                          + (upper[2] - target) * (upper[1] - lower[1]),
                        upper[2] - lower[2])

\* the return statements of _pwm_for_voltage, given the bracketing points
\* and the clamped target
Interpolate(lower, upper, target) ==
    IF NearlyEqual(upper[2], lower[2])
    THEN RetNumber(lower[1], 1)
    ELSE IF upper[2] - lower[2] = 0
         THEN RetRaise("ZeroDivisionError")
         ELSE RetNumber(lower[1] * (upper[2] - lower[2])
                          + (target - lower[2]) * (upper[1] - lower[1]),
                        upper[2] - lower[2])

PwmForVoltage(target_voltage, calibration) ==
    LET points == SortedItems(calibration)
    IN  IF points = << >>
        THEN RetRaise("ValueError")
        ELSE LET target == ClampTarget(target_voltage, points)
                 scan == ScanLoop(points, target, 1, points[1], points[1])
             IN  Interpolate(scan.lower, scan.upper, target)

(***************************************************************************)
(* JSON payloads.  json_str is modelled by what json.loads makes of it:    *)
(* kind "invalid" is a text json.loads rejects, the other kinds are the    *)
(* Python values it returns.  An object is the sequence of its (key,       *)
(* value) pairs in document order (dict insertion order); a key is its     *)
(* text, a sequence of characters; a value is a token                      *)
(*   [t |-> "num", v |-> x]   a JSON number, x in voltage units            *)
(*   [t |-> "str"]            a JSON string that is not a number           *)
(*   [t |-> "null"]           JSON null                                    *)
(*   [t |-> "bigint"]         an integer literal beyond the float range    *)
(***************************************************************************)
Num(x) == [t |-> "num", v |-> x]
Str == [t |-> "str", v |-> 0]
Null == [t |-> "null", v |-> 0]
BigInt == [t |-> "bigint", v |-> 0]

Entry(k, val) == [k |-> k, v |-> val]
Object(entries) == [kind |-> "object", entries |-> entries]
Scalar(kind) == [kind |-> kind, entries |-> << >>]
NoPayload == Scalar("none")

\* `not data`: None, False, 0, "", [] and {} are falsy
Falsy(data) ==
    \/ data.kind \in {"null", "bool_false", "num_zero", "str_empty", "arr_empty"}
    \/ data.kind = "object" /\ data.entries = << >>

DigitChars == <<"0", "1", "2", "3", "4", "5", "6", "7", "8", "9">>
IsDigit(c) == \E i \in 1..10 : DigitChars[i] = c
DigitValue(c) == (CHOOSE i \in 1..10 : DigitChars[i] = c) - 1

RECURSIVE DigitsValue(_, _)
DigitsValue(s, acc) ==
    IF s = << >> THEN acc ELSE DigitsValue(Tail(s), 10 * acc + DigitValue(Head(s)))

\* int(k) of a str: an optional sign and decimal digits, leading zeros
\* allowed; anything else raises ValueError
IntOfStr(k) ==
    LET signed == k # << >> /\ Head(k) \in {"-", "+"}
        body == IF signed THEN Tail(k) ELSE k
    IN  IF body = << >> \/ \E i \in 1..Len(body) : ~IsDigit(body[i])
        THEN [exc |-> "ValueError", n |-> 0]
        ELSE [exc |-> "",
              n |-> IF signed /\ Head(k) = "-"
                    THEN 0 - DigitsValue(body, 0) ELSE DigitsValue(body, 0)]

\* str(n) of a non-negative int, as json.dumps writes an int key
RECURSIVE StrOfInt(_)
StrOfInt(n) ==
    IF n < 10 THEN <<DigitChars[n + 1]>>
    ELSE StrOfInt(n \div 10) \o <<DigitChars[(n % 10) + 1]>>

\* float(v) of a value json.loads returned
FloatOf(val) ==
    CASE val.t = "num" -> [exc |-> "", x |-> val.v]
      [] val.t = "str" -> [exc |-> "ValueError", x |-> 0]
      [] val.t = "null" -> [exc |-> "TypeError", x |-> 0]
      [] val.t = "bigint" -> [exc |-> "OverflowError", x |-> 0]

(***************************************************************************)
(* CalibrationManager                                                      *)
(***************************************************************************)
EmptyTable == [d \in {} |-> 0]

\* 0 <= pwm <= 100
PwmInRange(pwm) == 0 <= pwm /\ pwm <= 100
\* the voltage check with the nominal 10 V as upper bound
VoltageInRangeNominal(voltage) == 0 <= voltage /\ voltage <= 10 * VoltScale
\* 0 <= voltage <= 12
VoltageInRange(voltage) == 0 <= voltage /\ voltage <= 12 * VoltScale

\* new_table[pwm] = voltage
Put(table, pwm, voltage) ==
    [d \in (DOMAIN table) \cup {pwm} |-> IF d = pwm THEN voltage ELSE table[d]]

\* the loop `for k, v in data.items()` from the i-th pair on: the table built,
\* or the exception that int(k) or float(v) raised
RECURSIVE BuildTable(_, _, _)
BuildTable(entries, i, new_table) ==
    IF i > Len(entries) THEN [exc |-> "", table |-> new_table]
    ELSE LET pwm == IntOfStr(entries[i].k)
             voltage == FloatOf(entries[i].v)
         IN  IF pwm.exc # "" THEN [exc |-> pwm.exc, table |-> new_table]
             ELSE IF voltage.exc # "" THEN [exc |-> voltage.exc, table |-> new_table]
             ELSE IF ~PwmInRange(pwm.n) THEN BuildTable(entries, i + 1, new_table)
             ELSE IF ~VoltageInRange(voltage.x) THEN BuildTable(entries, i + 1, new_table)
             ELSE BuildTable(entries, i + 1, Put(new_table, pwm.n, voltage.x))

\* the duties of a sequence of duties
Range(keys) == {keys[i] : i \in 1..Len(keys)}

\* The order in which the same loop inserts the duties into new_table, which
\* is the order the dict keeps: a duty assigned again keeps its first place.
RECURSIVE InsertionOrder(_, _, _)
InsertionOrder(entries, i, keys) ==
    IF i > Len(entries) THEN keys
    ELSE LET pwm == IntOfStr(entries[i].k)
             voltage == FloatOf(entries[i].v)
         IN  IF pwm.exc # "" \/ voltage.exc # "" THEN keys
             ELSE IF PwmInRange(pwm.n) /\ VoltageInRange(voltage.x)
                        /\ pwm.n \notin Range(keys)
                  THEN InsertionOrder(entries, i + 1, Append(keys, pwm.n))
                  ELSE InsertionOrder(entries, i + 1, keys)

\* the duties of a table literal, written in ascending order in the source
LiteralOrder(table) == [i \in 1..Cardinality(DOMAIN table) |-> SortedItems(table)[i][1]]

\* the exceptions the except clauses of update_from_mqtt catch
Caught == {"JSONDecodeError", "ValueError", "TypeError"}

Outcome(r, tabs, loaded) == [ret |-> r, tables |-> tabs, mqtt_loaded |-> loaded]

\* update_from_mqtt with the table assigned before the size check
UpdateFromMqttAssignFirst(tabs, loaded, gpio, data) ==
    IF gpio \notin {18, 19} THEN Outcome(RetBool(FALSE), tabs, loaded)
    ELSE IF data.kind = "invalid" THEN Outcome(RetBool(FALSE), tabs, loaded)
    ELSE IF Falsy(data) THEN Outcome(RetBool(FALSE), tabs, loaded)
    ELSE IF data.kind # "object" THEN Outcome(RetRaise("AttributeError"), tabs, loaded)
    ELSE LET built == BuildTable(data.entries, 1, EmptyTable)
         IN  IF built.exc \in Caught THEN Outcome(RetBool(FALSE), tabs, loaded)
             ELSE IF built.exc # "" THEN Outcome(RetRaise(built.exc), tabs, loaded)
             ELSE IF Cardinality(DOMAIN built.table) < 2
                  THEN Outcome(RetBool(FALSE), [tabs EXCEPT ![gpio] = built.table], loaded)
             ELSE Outcome(RetBool(TRUE),
                          [tabs EXCEPT ![gpio] = built.table],
                          [loaded EXCEPT ![gpio] = TRUE])

\* update_from_mqtt with the flag set as soon as the payload is a JSON object
UpdateFromMqttFlagOnAttempt(tabs, loaded, gpio, data) ==
    IF gpio \notin {18, 19} THEN Outcome(RetBool(FALSE), tabs, loaded)
    ELSE IF data.kind = "invalid" THEN Outcome(RetBool(FALSE), tabs, loaded)
    ELSE IF Falsy(data) THEN Outcome(RetBool(FALSE), tabs, loaded)
    ELSE IF data.kind # "object" THEN Outcome(RetRaise("AttributeError"), tabs, loaded)
    ELSE LET built == BuildTable(data.entries, 1, EmptyTable)
             loaded1 == [loaded EXCEPT ![gpio] = TRUE]
         IN  IF built.exc \in Caught THEN Outcome(RetBool(FALSE), tabs, loaded1)
             ELSE IF built.exc # "" THEN Outcome(RetRaise(built.exc), tabs, loaded1)
             ELSE IF Cardinality(DOMAIN built.table) < 2
                  THEN Outcome(RetBool(FALSE), tabs, loaded1)
             ELSE Outcome(RetBool(TRUE), [tabs EXCEPT ![gpio] = built.table], loaded1)

\* update_from_mqtt(gpio, json_str) on a manager with tables tabs and flags
\* loaded: the value returned or the exception raised, and the new state
UpdateFromMqtt(tabs, loaded, gpio, data) ==
    IF gpio \notin {18, 19} THEN Outcome(RetBool(FALSE), tabs, loaded)
    ELSE IF data.kind = "invalid" THEN Outcome(RetBool(FALSE), tabs, loaded)
    ELSE IF Falsy(data) THEN Outcome(RetBool(FALSE), tabs, loaded)
    ELSE IF data.kind # "object" THEN Outcome(RetRaise("AttributeError"), tabs, loaded)
    ELSE LET built == BuildTable(data.entries, 1, EmptyTable)
         IN  IF built.exc \in Caught THEN Outcome(RetBool(FALSE), tabs, loaded)
             ELSE IF built.exc # "" THEN Outcome(RetRaise(built.exc), tabs, loaded)
             ELSE IF Cardinality(DOMAIN built.table) < 2
                  THEN Outcome(RetBool(FALSE), tabs, loaded)
             ELSE Outcome(RetBool(TRUE),
                          [tabs EXCEPT ![gpio] = built.table],
                          [loaded EXCEPT ![gpio] = TRUE])

\* the target voltage of the percent taken modulo 100
TargetVoltageWrapped(percent) ==
    ((percent % (100 * PercentScale)) * VoltScale) \div (10 * PercentScale)
\* the target voltage with the 5 V full scale of the DAC
TargetVoltageFullScale5(percent) == (percent * VoltScale) \div (20 * PercentScale)
\* target_voltage = (percent / 100.0) * 10.0, that is percent / 10 volt
TargetVoltage(percent) == (percent * VoltScale) \div (10 * PercentScale)

\* get_pwm_for_percent falling back to the hardcoded table of GPIO 18
GetPwmForPercentDefaultTable(tabs, gpio, percent) ==
    IF gpio \notin DOMAIN tabs
    THEN PwmForVoltage(TargetVoltage(percent), PWM_CALIBRATION_GPIO18)
    ELSE PwmForVoltage(TargetVoltage(percent), tabs[gpio])

\* get_pwm_for_percent(gpio, percent)
GetPwmForPercent(tabs, gpio, percent) ==
    IF gpio \notin DOMAIN tabs
    THEN RetNumber(percent, PercentScale)
    ELSE PwmForVoltage(TargetVoltage(percent), tabs[gpio])

\* percent_to_pwm_gpio18(percent), defs being the module-level tables
PercentToPwmGpio18(defs, percent) == PwmForVoltage(TargetVoltage(percent), defs[18])
\* percent_to_pwm_gpio19(percent)
PercentToPwmGpio19(defs, percent) == PwmForVoltage(TargetVoltage(percent), defs[19])
\* percent_to_pwm(percent)
PercentToPwm(defs, percent) == PercentToPwmGpio18(defs, percent)

\* the assignment writing the new items into the module-level dict too
AssignedThroughDefault(defs, gpio, new_table) == [defs EXCEPT ![gpio] = new_table]
\* The module-level tables after `self.tables[gpio] = new_table`: the
\* statement rebinds an entry of self.tables, whose dicts are copies made
\* by the constructor; the module-level dicts are other objects.
Assigned(defs, gpio, new_table) == defs

\* export_json writing the voltages with two decimals
ExportJsonTwoDecimals(tabs, gpio) ==
    IF gpio \notin DOMAIN tabs THEN Object(<< >>)
    ELSE LET items == SortedItems(tabs[gpio])
         IN  Object([i \in 1..Len(items) |->
                        Entry(StrOfInt(items[i][1]),
                              Num(((items[i][2] * 100) \div VoltScale) * (VoltScale \div 100)))])

\* export_json(gpio): the JSON object json.dumps writes for the table sorted
\* by duty, int keys written as strings
ExportJson(tabs, gpio) ==
    IF gpio \notin DOMAIN tabs THEN Object(<< >>)
    ELSE LET items == SortedItems(tabs[gpio])
         IN  Object([i \in 1..Len(items) |->
                        Entry(StrOfInt(items[i][1]), Num(items[i][2]))])

\* A dict object a caller holds: its items, the order of its keys, and
\* whether it is the very object the manager keeps in self.tables.
Dict(table, keys, shared) == [table |-> table, keys |-> keys, shared |-> shared]
NoDict == Dict(EmptyTable, << >>, FALSE)

\* get_table returning the manager's own dict
GetTableNoCopy(tabs, ord, gpio) ==
    IF gpio \notin DOMAIN tabs THEN Dict(EmptyTable, << >>, FALSE)
    ELSE Dict(tabs[gpio], ord[gpio], TRUE)

\* get_table(gpio): {} for a channel without table, else a copy of the
\* table, a new dict with the same items in the same order
GetTable(tabs, ord, gpio) ==
    IF gpio \notin DOMAIN tabs THEN Dict(EmptyTable, << >>, FALSE)
    ELSE Dict(tabs[gpio], ord[gpio], FALSE)

\* `d[pwm] = voltage` on a dict: a new key goes to the end
SetItem(d, pwm, voltage) ==
    Dict(Put(d.table, pwm, voltage),
         IF pwm \in DOMAIN d.table THEN d.keys ELSE Append(d.keys, pwm),
         d.shared)

\* is_loaded_from_mqtt(gpio): self.mqtt_loaded.get(gpio, False)
IsLoadedFromMqtt(loaded, gpio) ==
    IF gpio \in DOMAIN loaded THEN RetBool(loaded[gpio]) ELSE RetBool(FALSE)

(***************************************************************************)
(* Inputs of the model                                                     *)
(***************************************************************************)
\* the channels with a table, and one channel without
Gpios == {17, 18, 19}

\* The pairs JSON object payloads are made of, in document order.  "00" is
\* a second spelling of duty 0; -1 and 101 are duties out of range; 0 V and
\* 12 V are the bounds of the voltages accepted.
EntryPool ==
    << Entry(<<"0", "0">>, Num(Volt(5, 0))),
       Entry(<<"0">>, Num(Volt(0, 0))),
       Entry(<<"-", "1">>, Num(Volt(5, 0))),
       Entry(<<"5", "0">>, Num(Volt(5, 5))),
       Entry(<<"5", "0">>, Num(Volt(0, 0))),
       Entry(<<"5", "0">>, Num(Volt(12, 0))),
       Entry(<<"5", "0">>, Num(Volt(12, 5))),
       Entry(<<"5", "0">>, Num(0 - 1)),
       Entry(<<"5", "0">>, Null),
       Entry(<<"5", "0">>, Str),
       Entry(<<"5", "0">>, BigInt),
       Entry(<<"1", "0", "0">>, Num(Volt(10, 0))),
       Entry(<<"1", "0", "1">>, Num(Volt(5, 0))),
       Entry(<<"x">>, Num(Volt(5, 0))) >>

\* the pool entries with indices in S, in pool order
RECURSIVE Pick(_)
Pick(S) ==
    IF S = {} THEN << >>
    ELSE LET i == SetMin(S) IN <<EntryPool[i]>> \o Pick(S \ {i})

\* a JSON object has one value per key text
DistinctKeys(S) == \A i, j \in S : EntryPool[i].k = EntryPool[j].k => i = j

Objects ==
    {Object(Pick(S)) : S \in {T \in SUBSET (1..Len(EntryPool)) :
                                Cardinality(T) <= MaxEntries /\ DistinctKeys(T)}}

\* the pairs of a sequence in reverse order
Reverse(entries) == [i \in 1..Len(entries) |-> entries[Len(entries) + 1 - i]]

\* a payload that lists its duties in descending order: "100" before "0"
DescendingObjects ==
    {Object(Reverse(o.entries)) :
        o \in {x \in Objects : {x.entries[i].k : i \in 1..Len(x.entries)}
                                  = {<<"0">>, <<"1", "0", "0">>}}}

\* what a caller writes into a dict it got from get_table
CallerItems == {<<0, Volt(7, 0)>>, <<25, Volt(99, 0)>>}

Payloads ==
    Objects \cup DescendingObjects \cup {Scalar(k) : k \in {"invalid", "null", "bool_false", "bool_true",
                                     "num_zero", "num_nonzero", "str_empty",
                                     "str_nonempty", "arr_empty", "arr_nonempty"}}

\* the percent, in percent units, whose target voltage is x voltage units
PercentFor(x) == (x * 10 * PercentScale) \div VoltScale

PoolVoltages ==
    {EntryPool[i].v.v : i \in {j \in 1..Len(EntryPool) : EntryPool[j].v.t = "num"}}

\* requested percents: below, inside and above [0, 100], the percent of
\* every voltage a table of the model can hold, and the percent one voltage
\* unit above it
Percents ==
    {(0 - 10) * PercentScale, 60 * PercentScale, 120 * PercentScale, 150 * PercentScale}
    \cup {PercentFor(x) : x \in PoolVoltages}
    \cup {PercentFor(x + 1) : x \in PoolVoltages}
    \cup {PercentFor(PWM_CALIBRATION_GPIO18[d]) : d \in DOMAIN PWM_CALIBRATION_GPIO18}

\* time.time() when the bridge is constructed, in ticks: any time later
\* than DEFAULT_CURRENT_FORCE_INTERVAL after the epoch
StartTime == 1000

\* the percents the module-level helpers are called with
LegacyPercents == {(0 - 10) * PercentScale, 0, 60 * PercentScale, 150 * PercentScale}

(***************************************************************************)
(* State                                                                   *)
(***************************************************************************)
VARIABLES
    tables,       \* self.tables: channel -> (duty -> voltage)
    mqtt_loaded,  \* self.mqtt_loaded: channel -> flag
    call,         \* the call the caller has just made, "idle" between calls
    payload,      \* json_str of that call, if it is update_from_mqtt
    ret,          \* what that call returned or raised
    out,          \* the JSON text that call returned, if it is export_json
    order,        \* the key order of the dicts in self.tables: channel -> duties
    got,          \* the dict that call returned, if it is get_table
    defaults,     \* the module-level tables ACTIVE_CALIBRATION_GPIO18 / 19
    writer,       \* a thread in update_from_mqtt: its position and locals
    reader,       \* a thread in get_pwm_for_percent: its position and locals
    bias_voltage, \* CurrentSensor._bias_voltage of the sensor of each channel
    ema_power,    \* CurrentMonitor._ema_power: channel -> smoothed power
    reads,        \* the number of read_all_power_filtered calls made
    scall,        \* the call just made on a sensor or on the monitor
    sret,         \* what that call returned or raised
    readings,     \* the dict read_all_power_filtered returned
    hrv_running,  \* hrv_bridge HrvBridge.running
    hrv_output,   \* hrv_bridge PwmOutput: its handle and the values last written
    hrv_msg,      \* the request hrv_bridge has just handled, and how it ended
    loop,         \* _current_loop: its position, sample_count, the readings of its
                  \* last iteration and the iterations made
    current_samples,       \* self._current_samples: channel -> readings
    last_current_values,   \* self._last_current_values: channel -> value or None
    last_current_publish,  \* self._last_current_publish: channel -> time
    now,          \* time.time(), in ticks of DEFAULT_CURRENT_SAMPLE_INTERVAL
    published,    \* the messages published on current/ad<channel>, in order
    dac_running,  \* dac_bridge HrvBridge.running
    dac_output,   \* dac_bridge PwmOutput: its handle and the duties last written
    sources,      \* dac_bridge self.sources: source -> value
    gpio_config,  \* dac_bridge self.gpio_config: gpio -> source
    dac_msg       \* the request dac_bridge has just handled, and how it ended

\* the frame of a call made when the previous one has returned
frameVars == <<call, payload, ret, out, got>>
\* the two threads, used when calls of the manager overlap
threadVars == <<writer, reader>>
\* the current sensors, which share nothing with the manager
sensorVars == <<bias_voltage, ema_power, reads, scall, sret, readings>>

\* the simple bridge (hrv_bridge): outputs and current loop
hrvVars == <<hrv_running, hrv_output, hrv_msg, loop, current_samples, last_current_values,
             last_current_publish, now, published>>
\* the routing bridge (dac_bridge), which owns the CalibrationManager
dacVars == <<dac_running, dac_output, sources, gpio_config, dac_msg>>
bridgeVars == <<hrvVars, dacVars>>

vars == <<tables, mqtt_loaded, call, payload, ret, out, order, got, defaults, threadVars,
          sensorVars, bridgeVars>>

WriterIdle ==
    [pc |-> "idle", gpio |-> 0, data |-> NoPayload, i |-> 0,
     new_table |-> EmptyTable, old |-> EmptyTable, ret |-> RetNone]
ReaderIdle ==
    [pc |-> "idle", gpio |-> 0, percent |-> 0, table |-> EmptyTable, ret |-> RetNone]

\* the channels the monitor is constructed with
Channels == {0, 1}
\* a float as a fraction in lowest terms
Rat(n, d) ==
    LET g == Gcd(Abs(n), Abs(d))
    IN  IF d < 0 THEN [num |-> (0 - n) \div g, den |-> (0 - d) \div g]
        ELSE [num |-> n \div g, den |-> d \div g]
\* self._bias_voltage = None
NoBias == [set |-> FALSE, v |-> Rat(0, 1)]
\* a call on a sensor or the monitor: the method, the channel of the
\* sensor, and the values the call read and computed on its way
SCall(op, channel, locals) == [op |-> op, channel |-> channel, locals |-> locals]
NoLocals == [none |-> TRUE]

\* CurrentMonitor.__init__ and CurrentSensor.__init__
SensorInit ==
    /\ bias_voltage = [ch \in Channels |-> NoBias]
    /\ ema_power = [ch \in Channels |-> Rat(0, 1)]
    /\ reads = 0
    /\ scall = SCall("idle", 0, NoLocals)
    /\ sret = RetNone
    /\ readings = [ch \in {} |-> 0]

Call(op, gpio, percent) == [op |-> op, gpio |-> gpio, percent |-> percent]

\* CalibrationManager.__init__, and no call made yet
ManagerInit ==
    /\ tables = (18 :> PWM_CALIBRATION_GPIO18) @@ (19 :> PWM_CALIBRATION_GPIO19)
    /\ mqtt_loaded = (18 :> FALSE) @@ (19 :> FALSE)
    /\ call = Call("idle", 0, 0)
    /\ payload = NoPayload
    /\ ret = RetNone
    /\ out = NoPayload
    /\ order = (18 :> LiteralOrder(PWM_CALIBRATION_GPIO18))
                  @@ (19 :> LiteralOrder(PWM_CALIBRATION_GPIO19))
    /\ got = NoDict
    /\ defaults = (18 :> ACTIVE_CALIBRATION_GPIO18) @@ (19 :> ACTIVE_CALIBRATION_GPIO19)
    /\ writer = WriterIdle
    /\ reader = ReaderIdle

\* a value never written to an output, and no control request handled
NotWritten == 0 - 1
NoRequest == [kind |-> "none", gpio |-> 0, text |-> << >>, exc |-> ""]
NoDacRequest == [kind |-> "none", gpio |-> 0, source |-> "", exc |-> ""]

\* hrv_bridge HrvBridge.__init__ with lgpio present: PwmOutput.__init__
\* opens the chip and writes nothing; the current loop is not started
HrvInit ==
    /\ hrv_running = FALSE
    /\ hrv_output = [handle |-> TRUE, digital |-> NotWritten,
                     pwm |-> (18 :> NotWritten) @@ (19 :> NotWritten)]
    /\ hrv_msg = NoRequest
    /\ loop = [pc |-> "not_started", sample_count |-> 0, iterations |-> 0, readings |-> << >>]
    /\ current_samples = << >>
    /\ last_current_values = << >>
    /\ last_current_publish = << >>
    /\ now = StartTime
    /\ published = << >>

\* dac_bridge HrvBridge.__init__ in PWM mode with lgpio present
DacInit ==
    /\ dac_running = FALSE
    /\ dac_output = [handle |-> TRUE, duty |-> (18 :> RetNone) @@ (19 :> RetNone)]
    /\ sources = [source \in {"power", "intake", "exhaust", "test"} |-> 0]
    /\ gpio_config = (18 :> "intake") @@ (19 :> "exhaust")
    /\ dac_msg = NoDacRequest

BridgeInit == HrvInit /\ DacInit

\* the bridges after construction
Init == ManagerInit /\ SensorInit /\ BridgeInit

\* The manager is called from one thread: a call is made when the previous
\* one has returned.
DoUpdateFromMqtt(gpio, data) ==
    LET o == UpdateFromMqtt(tables, mqtt_loaded, gpio, data)
    IN  /\ call.op = "idle"
        /\ tables' = o.tables
        /\ mqtt_loaded' = o.mqtt_loaded
        /\ ret' = o.ret
        /\ call' = Call("update_from_mqtt", gpio, 0)
        /\ payload' = data
        /\ out' = NoPayload
        /\ order' = IF o.ret = RetBool(TRUE)
                     THEN [order EXCEPT ![gpio] = InsertionOrder(data.entries, 1, << >>)]
                     ELSE order
        /\ got' = NoDict
        /\ defaults' = IF o.ret = RetBool(TRUE)
                        THEN Assigned(defaults, gpio, o.tables[gpio])
                        ELSE defaults
        /\ UNCHANGED <<threadVars, sensorVars, bridgeVars>>

DoGetPwmForPercent(gpio, percent) ==
    /\ call.op = "idle"
    /\ ret' = GetPwmForPercent(tables, gpio, percent)
    /\ call' = Call("get_pwm_for_percent", gpio, percent)
    /\ payload' = NoPayload
    /\ out' = NoPayload
    /\ got' = NoDict
    /\ UNCHANGED <<tables, mqtt_loaded, order, defaults>>
    /\ UNCHANGED <<threadVars, sensorVars, bridgeVars>>

DoExportJson(gpio) ==
    /\ call.op = "idle"
    /\ ret' = RetJson
    /\ out' = ExportJson(tables, gpio)
    /\ call' = Call("export_json", gpio, 0)
    /\ payload' = NoPayload
    /\ got' = NoDict
    /\ UNCHANGED <<tables, mqtt_loaded, order, defaults>>
    /\ UNCHANGED <<threadVars, sensorVars, bridgeVars>>

DoGetTable(gpio) ==
    /\ call.op = "idle"
    /\ ret' = RetNone
    /\ got' = GetTable(tables, order, gpio)
    /\ call' = Call("get_table", gpio, 0)
    /\ payload' = NoPayload
    /\ out' = NoPayload
    /\ UNCHANGED <<tables, mqtt_loaded, order, defaults>>
    /\ UNCHANGED <<threadVars, sensorVars, bridgeVars>>

\* The caller of get_table writes an item into the dict it got.  A dict is
\* an object: if it is the one in self.tables, the manager's table changes
\* with it.
CallerSetsItem(pwm, voltage) ==
    /\ call.op = "get_table"
    /\ got' = SetItem(got, pwm, voltage)
    /\ call' = Call("caller_set_item", call.gpio, 0)
    /\ tables' = IF got.shared
                  THEN [tables EXCEPT ![call.gpio] = Put(tables[call.gpio], pwm, voltage)]
                  ELSE tables
    /\ order' = IF got.shared
                 THEN [order EXCEPT ![call.gpio] = SetItem(got, pwm, voltage).keys]
                 ELSE order
    /\ UNCHANGED <<mqtt_loaded, payload, ret, out, defaults>>
    /\ UNCHANGED <<threadVars, sensorVars, bridgeVars>>

DoIsLoadedFromMqtt(gpio) ==
    /\ call.op = "idle"
    /\ ret' = IsLoadedFromMqtt(mqtt_loaded, gpio)
    /\ call' = Call("is_loaded_from_mqtt", gpio, 0)
    /\ payload' = NoPayload
    /\ out' = NoPayload
    /\ got' = NoDict
    /\ UNCHANGED <<tables, mqtt_loaded, order, defaults>>
    /\ UNCHANGED <<threadVars, sensorVars, bridgeVars>>

\* percent_to_pwm_gpio18(percent): the module-level table, whatever the
\* manager holds
DoPercentToPwmGpio18(percent) ==
    /\ call.op = "idle"
    /\ ret' = PercentToPwmGpio18(defaults, percent)
    /\ call' = Call("percent_to_pwm_gpio18", 18, percent)
    /\ payload' = NoPayload
    /\ out' = NoPayload
    /\ got' = NoDict
    /\ UNCHANGED <<tables, mqtt_loaded, order, defaults>>
    /\ UNCHANGED <<threadVars, sensorVars, bridgeVars>>

DoPercentToPwmGpio19(percent) ==
    /\ call.op = "idle"
    /\ ret' = PercentToPwmGpio19(defaults, percent)
    /\ call' = Call("percent_to_pwm_gpio19", 19, percent)
    /\ payload' = NoPayload
    /\ out' = NoPayload
    /\ got' = NoDict
    /\ UNCHANGED <<tables, mqtt_loaded, order, defaults>>
    /\ UNCHANGED <<threadVars, sensorVars, bridgeVars>>

DoPercentToPwm(percent) ==
    /\ call.op = "idle"
    /\ ret' = PercentToPwm(defaults, percent)
    /\ call' = Call("percent_to_pwm", 18, percent)
    /\ payload' = NoPayload
    /\ out' = NoPayload
    /\ got' = NoDict
    /\ UNCHANGED <<tables, mqtt_loaded, order, defaults>>
    /\ UNCHANGED <<threadVars, sensorVars, bridgeVars>>

\* the caller has taken the result of its call
Return ==
    /\ call.op # "idle"
    /\ call' = Call("idle", 0, 0)
    /\ payload' = NoPayload
    /\ ret' = RetNone
    /\ out' = NoPayload
    /\ got' = NoDict
    /\ UNCHANGED <<tables, mqtt_loaded, order, defaults>>
    /\ UNCHANGED <<threadVars, sensorVars, bridgeVars>>

Next ==
    \/ \E gpio \in Gpios, data \in Payloads : DoUpdateFromMqtt(gpio, data)
    \/ \E gpio \in Gpios, percent \in Percents : DoGetPwmForPercent(gpio, percent)
    \/ \E gpio \in Gpios : DoExportJson(gpio)
    \/ \E gpio \in Gpios : DoGetTable(gpio)
    \/ \E item \in CallerItems : CallerSetsItem(item[1], item[2])
    \/ \E gpio \in Gpios : DoIsLoadedFromMqtt(gpio)
    \/ \E percent \in LegacyPercents : DoPercentToPwmGpio18(percent)
    \/ \E percent \in LegacyPercents : DoPercentToPwmGpio19(percent)
    \/ \E percent \in LegacyPercents : DoPercentToPwm(percent)
    \/ Return

Spec == Init /\ [][Next]_vars

(***************************************************************************)
(* Overlapping calls: update_from_mqtt on the thread that handles MQTT     *)
(* messages, get_pwm_for_percent on another thread.  A step is one         *)
(* statement of the method; the interpreter runs one thread at a time.     *)
(***************************************************************************)
\* the payloads of the overlapping updates: three valid points; two
\* spellings of one duty; a voltage out of range between valid points; a
\* null or a huge integer after a valid point; descending duties; no JSON
ConcPayloads ==
    {Object(Pick(S)) : S \in {{2, 4, 12}, {1, 2}, {2, 7, 12}, {2, 9, 12}, {2, 11, 12}}}
    \cup DescendingObjects \cup {Scalar("invalid"), Scalar("arr_nonempty")}
ConcGpios == {17, 18}
ConcPercents == {0, 60 * PercentScale}

\* the table a writer builds, written into self.tables while it is built
PublishedInPlace(tabs, gpio, new_table) == [tabs EXCEPT ![gpio] = new_table]
\* self.tables while a writer builds its table: new_table is a local
\* variable of update_from_mqtt, so self.tables is what it was
Published(tabs, gpio, new_table) == tabs

WriterDone(r) == [writer EXCEPT !.pc = "done", !.ret = r]

\* update_from_mqtt up to `new_table = {}`; old records the table of the
\* channel at the call
WriterCall(gpio, data) ==
    /\ writer.pc = "idle"
    /\ LET w == [WriterIdle EXCEPT !.gpio = gpio, !.data = data,
                                   !.old = IF gpio \in DOMAIN tables THEN tables[gpio]
                                           ELSE EmptyTable]
       IN  IF gpio \notin {18, 19} \/ data.kind = "invalid" \/ Falsy(data)
           THEN /\ writer' = [w EXCEPT !.pc = "done", !.ret = RetBool(FALSE)]
                /\ tables' = tables
           ELSE IF data.kind # "object"
           THEN /\ writer' = [w EXCEPT !.pc = "done", !.ret = RetRaise("AttributeError")]
                /\ tables' = tables
           ELSE /\ writer' = [w EXCEPT !.pc = "loop", !.i = 1]
                /\ tables' = Published(tables, gpio, EmptyTable)
    /\ UNCHANGED <<mqtt_loaded, order, reader>>
    /\ UNCHANGED <<frameVars, sensorVars, defaults, bridgeVars>>

\* one pass of the loop `for k, v in data.items()`
WriterLoop ==
    /\ writer.pc = "loop"
    /\ writer.i <= Len(writer.data.entries)
    /\ LET built == BuildTable(<<writer.data.entries[writer.i]>>, 1, writer.new_table)
       IN  IF built.exc \in Caught
           THEN writer' = WriterDone(RetBool(FALSE)) /\ tables' = tables
           ELSE IF built.exc # ""
           THEN writer' = WriterDone(RetRaise(built.exc)) /\ tables' = tables
           ELSE /\ writer' = [writer EXCEPT !.i = @ + 1, !.new_table = built.table]
                /\ tables' = Published(tables, writer.gpio, built.table)
    /\ UNCHANGED <<mqtt_loaded, order, reader>>
    /\ UNCHANGED <<frameVars, sensorVars, defaults, bridgeVars>>

\* `if len(new_table) < 2`
WriterCheck ==
    /\ writer.pc = "loop"
    /\ writer.i > Len(writer.data.entries)
    /\ writer' = IF Cardinality(DOMAIN writer.new_table) < 2
                  THEN WriterDone(RetBool(FALSE))
                  ELSE [writer EXCEPT !.pc = "assign"]
    /\ UNCHANGED <<tables, mqtt_loaded, order, reader>>
    /\ UNCHANGED <<frameVars, sensorVars, defaults, bridgeVars>>

\* `self.tables[gpio] = new_table`
WriterAssign ==
    /\ writer.pc = "assign"
    /\ tables' = [tables EXCEPT ![writer.gpio] = writer.new_table]
    /\ order' = [order EXCEPT ![writer.gpio] = InsertionOrder(writer.data.entries, 1, << >>)]
    /\ writer' = [writer EXCEPT !.pc = "flag"]
    /\ defaults' = Assigned(defaults, writer.gpio, writer.new_table)
    /\ UNCHANGED <<mqtt_loaded, reader>>
    /\ UNCHANGED <<frameVars, sensorVars, bridgeVars>>

\* `self.mqtt_loaded[gpio] = True` and `return True`
WriterFlag ==
    /\ writer.pc = "flag"
    /\ mqtt_loaded' = [mqtt_loaded EXCEPT ![writer.gpio] = TRUE]
    /\ writer' = WriterDone(RetBool(TRUE))
    /\ UNCHANGED <<tables, order, reader>>
    /\ UNCHANGED <<frameVars, sensorVars, defaults, bridgeVars>>

WriterReturn ==
    /\ writer.pc = "done"
    /\ writer' = WriterIdle
    /\ UNCHANGED <<tables, mqtt_loaded, order, reader>>
    /\ UNCHANGED <<frameVars, sensorVars, defaults, bridgeVars>>

\* get_pwm_for_percent: `if gpio not in self.tables`
ReaderCall(gpio, percent) ==
    /\ reader.pc = "idle"
    /\ reader' = IF gpio \notin DOMAIN tables
                  THEN [ReaderIdle EXCEPT !.pc = "done", !.gpio = gpio, !.percent = percent,
                                          !.ret = RetNumber(percent, PercentScale)]
                  ELSE [ReaderIdle EXCEPT !.pc = "load", !.gpio = gpio, !.percent = percent]
    /\ UNCHANGED <<tables, mqtt_loaded, order, writer>>
    /\ UNCHANGED <<frameVars, sensorVars, defaults, bridgeVars>>

\* the argument self.tables[gpio] of the call of _pwm_for_voltage
ReaderLoad ==
    /\ reader.pc = "load"
    /\ reader' = [reader EXCEPT !.pc = "compute", !.table = tables[reader.gpio]]
    /\ UNCHANGED <<tables, mqtt_loaded, order, writer>>
    /\ UNCHANGED <<frameVars, sensorVars, defaults, bridgeVars>>

\* _pwm_for_voltage on that dict
ReaderCompute ==
    /\ reader.pc = "compute"
    /\ reader' = [reader EXCEPT !.pc = "done",
                      !.ret = PwmForVoltage(TargetVoltage(reader.percent), reader.table)]
    /\ UNCHANGED <<tables, mqtt_loaded, order, writer>>
    /\ UNCHANGED <<frameVars, sensorVars, defaults, bridgeVars>>

ReaderReturn ==
    /\ reader.pc = "done"
    /\ reader' = ReaderIdle
    /\ UNCHANGED <<tables, mqtt_loaded, order, writer>>
    /\ UNCHANGED <<frameVars, sensorVars, defaults, bridgeVars>>

ConcNext ==
    \/ \E gpio \in ConcGpios, data \in ConcPayloads : WriterCall(gpio, data)
    \/ WriterLoop
    \/ WriterCheck
    \/ WriterAssign
    \/ WriterFlag
    \/ WriterReturn
    \/ \E gpio \in ConcGpios, percent \in ConcPercents : ReaderCall(gpio, percent)
    \/ ReaderLoad
    \/ ReaderCompute
    \/ ReaderReturn

ConcSpec == Init /\ [][ConcNext]_vars

(***************************************************************************)
(* Current sensor (current_sensor.py).  A sample is an ADC voltage in      *)
(* sample units of 1/SampleScale volt; SampleScale is chosen so that one   *)
(* watt is a whole number of units on every channel (17 on a channel with  *)
(* factor 1.0, 20 on channel 1).  Sums, means, powers and the smoothed     *)
(* power are exact fractions; the square root is rounded to the nearest    *)
(* sample unit.                                                            *)
(***************************************************************************)
SCT013_RATIO == 5
DEFAULT_SAMPLES == 200
MAINS_VOLTAGE == 230
NOISE_THRESHOLD_WATTS == 3
MAX_POWER_WATTS == 500
SPIKE_FILTER_PERCENTILE == 10
\* EMA_ALPHA = 0.3
EMA_ALPHA == Rat(3, 10)
\* CHANNEL_CALIBRATION.get(channel, 1.0), in hundredths
ChannelCalibration(channel) == IF channel = 1 THEN 85 ELSE 100

SampleScale == SCT013_RATIO * MAINS_VOLTAGE * 17

RatAdd(a, b) == Rat(a.num * b.den + b.num * a.den, a.den * b.den)
RatSub(a, b) == Rat(a.num * b.den - b.num * a.den, a.den * b.den)
RatMul(a, b) == Rat(a.num * b.num, a.den * b.den)
RatLess(a, b) == a.num * b.den < b.num * a.den
RatAbs(a) == Rat(Abs(a.num), a.den)

\* the sum of the samples at positions lo..hi
RECURSIVE SumRange(_, _, _)
SumRange(samples, lo, hi) ==
    IF lo > hi THEN 0
    ELSE IF lo = hi THEN samples[lo]
    ELSE LET mid == (lo + hi) \div 2
         IN  SumRange(samples, lo, mid) + SumRange(samples, mid + 1, hi)

\* sum(samples)
Sum(samples) == SumRange(samples, 1, Len(samples))

\* sorted(samples): the same samples in ascending order
RECURSIVE Sorted(_)
Sorted(samples) ==
    IF Len(samples) = 0 THEN << >>
    ELSE LET m == SetMin({samples[i] : i \in 1..Len(samples)})
             IsMin(x) == x = m
             NotMin(x) == x # m
         IN  SelectSeq(samples, IsMin) \o Sorted(SelectSeq(samples, NotMin))

\* the filter applied to batches of every length
FilterOutliersAlways(samples) ==
    LET n == (Len(samples) * SPIKE_FILTER_PERCENTILE) \div 100
        trim_count == IF n < 1 THEN 1 ELSE n
    IN  SubSeq(Sorted(samples), trim_count + 1, Len(samples) - trim_count)

\* _filter_outliers(samples) with the default percentile
FilterOutliers(samples) ==
    IF Len(samples) < 10 THEN samples
    ELSE LET n == (Len(samples) * SPIKE_FILTER_PERCENTILE) \div 100
             trim_count == IF n < 1 THEN 1 ELSE n
         IN  SubSeq(Sorted(samples), trim_count + 1, Len(samples) - trim_count)

\* the largest r in lo..hi with r * r <= x
RECURSIVE FloorSqrt(_, _, _)
FloorSqrt(x, lo, hi) ==
    IF lo = hi THEN lo
    ELSE LET mid == (lo + hi + 1) \div 2
         IN  IF mid * mid <= x THEN FloorSqrt(x, mid, hi) ELSE FloorSqrt(x, lo, mid - 1)

\* math.sqrt of the fraction q >= 0, to the nearest sample unit
Sqrt(q) ==
    LET r == FloorSqrt(q.num \div q.den, 0, 40000)
    IN  IF 4 * (q.num - (r * r + r) * q.den) >= q.den THEN r + 1 ELSE r

\* calculate_rms without the test for an empty list
CalculateRmsNoEmptyCheck(samples, bias) ==
    LET filtered == FilterOutliers(samples)
    IN  IF Len(filtered) = 0 THEN RetRaise("ZeroDivisionError")
        ELSE LET b == IF bias.set THEN bias.v ELSE Rat(Sum(filtered), Len(filtered))
                 sum_squares ==
                     Rat(Sum([i \in 1..Len(filtered) |->
                                 (filtered[i] * b.den - b.num) * (filtered[i] * b.den - b.num)]),
                         b.den * b.den)
             IN  RetNumber(Sqrt(RatMul(sum_squares, Rat(1, Len(filtered)))), 1)

\* calculate_rms(samples, bias): the RMS voltage in sample units; bias is
\* NoBias for None
CalculateRms(samples, bias) ==
    IF Len(samples) = 0 THEN RetNumber(0, 1)
    ELSE LET filtered == FilterOutliers(samples)
         IN  IF Len(filtered) = 0 THEN RetRaise("ZeroDivisionError")
             ELSE LET b == IF bias.set THEN bias.v ELSE Rat(Sum(filtered), Len(filtered))
                      sum_squares ==
                          Rat(Sum([i \in 1..Len(filtered) |->
                                      (filtered[i] * b.den - b.num) * (filtered[i] * b.den - b.num)]),
                              b.den * b.den)
                  IN  RetNumber(Sqrt(RatMul(sum_squares, Rat(1, Len(filtered)))), 1)

\* a stored bias (a float that is not None)
Bias(v) == [set |-> TRUE, v |-> v]

\* `self._bias_voltage if self._bias_voltage else None`: None and 0.0 are
\* both false
BiasIfTruthy(stored) == IF stored.set /\ stored.v.num # 0 THEN stored ELSE NoBias

\* read_current() on a sensor with the stored bias, the ADC delivering
\* samples: the current in sample units of 1/SampleScale ampere
ReadCurrent(stored, samples) ==
    LET rms_voltage == CalculateRms(samples, BiasIfTruthy(stored))
    IN  IF rms_voltage.kind = "raise" THEN rms_voltage
        ELSE RetNumber(rms_voltage.num * SCT013_RATIO, rms_voltage.den)

\* the power of read_power before the clamps, in watts
ScaledPower(channel, current) ==
    Rat(current.num * MAINS_VOLTAGE * ChannelCalibration(channel),
        current.den * SampleScale * 100)

\* the clamps with the ceiling tested as >=
ClampPowerExclusive(power) ==
    IF RatLess(power, Rat(NOISE_THRESHOLD_WATTS, 1)) THEN Rat(0, 1)
    ELSE IF ~RatLess(power, Rat(MAX_POWER_WATTS, 1)) THEN Rat(0, 1)
    ELSE power

\* the two clamps of read_power
ClampPower(power) ==
    IF RatLess(power, Rat(NOISE_THRESHOLD_WATTS, 1)) THEN Rat(0, 1)
    ELSE IF RatLess(Rat(MAX_POWER_WATTS, 1), power) THEN Rat(0, 1)
    ELSE power

\* read_power() on the sensor of a channel: the power in watts
ReadPower(channel, stored, samples) ==
    LET current == ReadCurrent(stored, samples)
    IN  IF current.kind = "raise" THEN current
        ELSE LET power == ClampPower(ScaledPower(channel, current))
             IN  RetNumber(power.num, power.den)

\* calibrate_bias(num_readings) with the ADC delivering voltages: the bias
\* stored and returned, or the exception of `total / num_readings`
CalibrateBias(voltages) ==
    IF Len(voltages) = 0 THEN RetRaise("ZeroDivisionError")
    ELSE RetNumber(Sum(voltages), Len(voltages))

\* round(x): to the nearest integer, a half to the even one
Round(x) ==
    LET f == x.num \div x.den
        r == x.num - f * x.den
    IN  IF 2 * r < x.den THEN f
        ELSE IF 2 * r > x.den THEN f + 1
        ELSE IF f % 2 = 0 THEN f ELSE f + 1

\* the smoothing without the snap to 0 on a reading of 0
EmaStepNoZeroSnap(ema, raw_power) ==
    IF ema.num = 0 /\ raw_power.num > 0 THEN raw_power
    ELSE IF RatLess(Rat(50, 1), RatAbs(RatSub(raw_power, ema))) THEN raw_power
    ELSE RatAdd(RatMul(EMA_ALPHA, raw_power),
                RatMul(RatSub(Rat(1, 1), EMA_ALPHA), ema))

\* the smoothing with the jump test written >=
EmaStepJumpInclusive(ema, raw_power) ==
    IF raw_power.num = 0 THEN Rat(0, 1)
    ELSE IF ema.num = 0 /\ raw_power.num > 0 THEN raw_power
    ELSE IF ~RatLess(RatAbs(RatSub(raw_power, ema)), Rat(50, 1)) THEN raw_power
    ELSE RatAdd(RatMul(EMA_ALPHA, raw_power),
                RatMul(RatSub(Rat(1, 1), EMA_ALPHA), ema))

\* the smoothing with the jump test at 100 W
EmaStepJumpAbove100(ema, raw_power) ==
    IF raw_power.num = 0 THEN Rat(0, 1)
    ELSE IF ema.num = 0 /\ raw_power.num > 0 THEN raw_power
    ELSE IF RatLess(Rat(100, 1), RatAbs(RatSub(raw_power, ema))) THEN raw_power
    ELSE RatAdd(RatMul(EMA_ALPHA, raw_power),
                RatMul(RatSub(Rat(1, 1), EMA_ALPHA), ema))

\* the if/elif chain of read_all_power_filtered for one channel: the new
\* self._ema_power[ch]
EmaStep(ema, raw_power) ==
    IF raw_power.num = 0 THEN Rat(0, 1)
    ELSE IF ema.num = 0 /\ raw_power.num > 0 THEN raw_power
    ELSE IF RatLess(Rat(50, 1), RatAbs(RatSub(raw_power, ema))) THEN raw_power
    ELSE RatAdd(RatMul(EMA_ALPHA, raw_power),
                RatMul(RatSub(Rat(1, 1), EMA_ALPHA), ema))

(***************************************************************************)
(* Inputs of the sensors: what the ADC delivers                            *)
(***************************************************************************)
\* the sensors are constructed with samples = SamplesPerRead
SamplesPerRead == 12
\* the DC level of the sensor output, in sample units
Offset == 1000

\* n samples around the level, alternately amp above and amp below it
Wave(level, amp, n) == [i \in 1..n |-> IF i % 2 = 1 THEN level + amp ELSE level - amp]

\* the same with a spike of size spike above at the first sample and below
\* at the second
SpikedWave(level, amp, spike, n) ==
    [i \in 1..n |-> IF i = 1 THEN level + spike
                    ELSE IF i = 2 THEN level - spike
                    ELSE IF i % 2 = 1 THEN level + amp ELSE level - amp]

\* Amplitudes of one read: no signal; just below and at 3 W on a channel
\* with factor 1.0 (50, 51) and on channel 1 (59, 60); 45 W, 46 W and 96 W
\* on a channel with factor 1.0; 45 W on channel 1; at and just above
\* 500 W on a channel with factor 1.0 (8500, 8501) and on channel 1
ReadAmplitudes == {0, 50, 51, 59, 60, 765, 782, 900, 1632, 8500, 8501, 10000, 10001}

ReadBatches ==
    {Wave(Offset, a, SamplesPerRead) : a \in ReadAmplitudes}
    \cup {SpikedWave(Offset, 765, 12000, SamplesPerRead), Wave(Offset + 100, 765, SamplesPerRead)}

\* what the ADC delivers to the reads of the monitor: 0 W, 45 W, 46 W and
\* 96 W on channel 0; 0 W, 3 W, 45 W, 96 W and 500 W on channel 1
MonitorBatches(ch) ==
    IF ch = 0 THEN {Wave(Offset, a, SamplesPerRead) : a \in {0, 765, 782, 1632}}
    ELSE {Wave(Offset, a, SamplesPerRead) : a \in {0, 60, 900, 1920, 10000}}

\* the ten voltages of a calibrate_bias(): an input at 0 V, an input at the
\* DC level, and no reading at all (num_readings = 0)
CalibrationVoltages == {[i \in 1..10 |-> 0], [i \in 1..10 |-> Offset], << >>}

\* the read_all_power_filtered calls followed
MaxReads == 3

(***************************************************************************)
(* The monitor and its sensors, called from the sampling thread            *)
(***************************************************************************)
managerVars == <<tables, mqtt_loaded, order, defaults, frameVars, threadVars>>

DoCalibrateBias(ch, voltages) ==
    LET r == CalibrateBias(voltages)
    IN  /\ scall.op = "idle"
        /\ bias_voltage' = IF r.kind = "raise" THEN bias_voltage
                            ELSE [bias_voltage EXCEPT ![ch] = Bias(Rat(r.num, r.den))]
        /\ sret' = r
        /\ scall' = SCall("calibrate_bias", ch, NoLocals)
        /\ UNCHANGED <<ema_power, reads, readings, managerVars, bridgeVars>>

DoReadCurrent(ch, samples) ==
    /\ scall.op = "idle"
    /\ sret' = ReadCurrent(bias_voltage[ch], samples)
    /\ scall' = SCall("read_current", ch, [samples |-> samples])
    /\ UNCHANGED <<bias_voltage, ema_power, reads, readings, managerVars, bridgeVars>>

DoReadPower(ch, samples) ==
    /\ scall.op = "idle"
    /\ sret' = ReadPower(ch, bias_voltage[ch], samples)
    /\ scall' = SCall("read_power", ch,
                       [samples |-> samples,
                        power |-> ScaledPower(ch, ReadCurrent(bias_voltage[ch], samples))])
    /\ UNCHANGED <<bias_voltage, ema_power, reads, readings, managerVars, bridgeVars>>

\* read_all_power_filtered(), the ADC delivering batch[ch] to the sensor of
\* channel ch; raw and prior keep the powers read and the smoothed powers
\* found
DoReadAllPowerFiltered(batch) ==
    LET raw == [ch \in Channels |->
                   LET r == ReadPower(ch, bias_voltage[ch], batch[ch])
                   IN  Rat(r.num, r.den)]
        ema == [ch \in Channels |-> EmaStep(ema_power[ch], raw[ch])]
    IN  /\ scall.op = "idle"
        /\ reads < MaxReads
        /\ reads' = reads + 1
        /\ ema_power' = ema
        /\ readings' = [ch \in Channels |-> Round(ema[ch])]
        /\ sret' = RetNone
        /\ scall' = SCall("read_all_power_filtered", 0, [raw |-> raw, prior |-> ema_power])
        /\ UNCHANGED <<bias_voltage, managerVars, bridgeVars>>

\* the sampling thread has taken the result of its call
SensorReturn ==
    /\ scall.op # "idle"
    /\ scall' = SCall("idle", 0, NoLocals)
    /\ sret' = RetNone
    /\ readings' = [ch \in {} |-> 0]
    /\ UNCHANGED <<bias_voltage, ema_power, reads, managerVars, bridgeVars>>

SensorNext ==
    \/ \E ch \in Channels, voltages \in CalibrationVoltages : DoCalibrateBias(ch, voltages)
    \/ \E ch \in Channels, samples \in ReadBatches : DoReadCurrent(ch, samples)
    \/ \E ch \in Channels, samples \in ReadBatches : DoReadPower(ch, samples)
    \/ \E b0 \in MonitorBatches(0), b1 \in MonitorBatches(1) :
           DoReadAllPowerFiltered((0 :> b0) @@ (1 :> b1))
    \/ SensorReturn

SensorSpec == Init /\ [][SensorNext]_vars

(***************************************************************************)
(* calculate_rms as a function of its arguments                            *)
(***************************************************************************)
\* the longest of the short batches
MaxShort == 12
\* the numbers of spikes above and below in a batch of DEFAULT_SAMPLES
SpikeCounts == {0, 3, 5}

\* DEFAULT_SAMPLES samples of a wave 0, +2, 0, -2 around 0 V, the first
\* high samples replaced by spikes at +50 and the next low by spikes at -50
SpikedSignal(high, low) ==
    [i \in 1..DEFAULT_SAMPLES |->
        IF i <= high THEN 50
        ELSE IF i <= high + low THEN 0 - 50
        ELSE IF i % 4 = 1 THEN 2
        ELSE IF i % 4 = 3 THEN 0 - 2
        ELSE 0]

RmsBatches ==
    {Wave(Offset, 51, n) : n \in 0..MaxShort}
    \cup {SpikedWave(Offset, 51, 500, n) : n \in 0..MaxShort}
    \cup {SpikedSignal(high, low) : high \in SpikeCounts, low \in SpikeCounts}

\* the bias argument: None, 0.0 and the DC level
RmsBiases == {NoBias, Bias(Rat(0, 1)), Bias(Rat(Offset, 1))}

\* the arguments of a call about to be made
RmsInit ==
    /\ ManagerInit
    /\ bias_voltage = [ch \in Channels |-> NoBias]
    /\ ema_power = [ch \in Channels |-> Rat(0, 1)]
    /\ reads = 0
    /\ \E samples \in RmsBatches, bias \in RmsBiases :
           scall = SCall("call", 0, [samples |-> samples, bias |-> bias])
    /\ sret = RetNone
    /\ readings = [ch \in {} |-> 0]
    /\ BridgeInit

\* calculate_rms(samples, bias); filtered keeps what _filter_outliers
\* returned to it
DoCalculateRms ==
    /\ scall.op = "call"
    /\ sret' = CalculateRms(scall.locals.samples, scall.locals.bias)
    /\ scall' = SCall("calculate_rms", 0,
                       [samples |-> scall.locals.samples, bias |-> scall.locals.bias,
                        filtered |-> FilterOutliers(scall.locals.samples)])
    /\ UNCHANGED <<bias_voltage, ema_power, reads, readings, managerVars, bridgeVars>>

RmsNext == DoCalculateRms

RmsSpec == RmsInit /\ [][RmsNext]_vars

(***************************************************************************)
(* The simple bridge (hrv_bridge): MQTT requests set the outputs; a thread *)
(* samples the current sensors and publishes their median.                 *)
(*                                                                         *)
(* A payload is the sequence of its characters.  A duty cycle is an        *)
(* integer count of 1/PercentScale percent.  Time is counted in ticks of   *)
(* DEFAULT_CURRENT_SAMPLE_INTERVAL (0.2 s).                                *)
(***************************************************************************)
TicksPerSecond == 5
DEFAULT_CURRENT_PUBLISH_INTERVAL == 1
DEFAULT_CURRENT_FORCE_INTERVAL == 60

\* payload.strip(): without the blanks at both ends
RECURSIVE Strip(_)
Strip(s) ==
    IF s = << >> THEN s
    ELSE IF Head(s) = " " THEN Strip(Tail(s))
    ELSE IF s[Len(s)] = " " THEN Strip(SubSeq(s, 1, Len(s) - 1))
    ELSE s

\* payload.replace(",", ".")
ReplaceComma(s) == [i \in 1..Len(s) |-> IF s[i] = "," THEN "." ELSE s[i]]

\* 10 to the power n
RECURSIVE Pow10(_)
Pow10(n) == IF n = 0 THEN 1 ELSE 10 * Pow10(n - 1)

\* the results of float(): a finite number x (in 1/PercentScale), nan,
\* inf or -inf, or a ValueError
Finite(x) == [exc |-> "", kind |-> "finite", x |-> x]
NotFinite(kind) == [exc |-> "", kind |-> kind, x |-> 0]
FloatError == [exc |-> "ValueError", kind |-> "", x |-> 0]

\* float(s) of a text: "nan", "inf", "-inf", or an optional sign, digits and
\* an optional fraction of up to three digits (the texts of the model have
\* no exponent); anything else raises ValueError
FloatOfText(s) ==
    LET signed == s # << >> /\ Head(s) \in {"-", "+"}
        body == IF signed THEN Tail(s) ELSE s
        dots == {i \in 1..Len(body) : body[i] = "."}
        whole == IF dots = {} THEN body ELSE SubSeq(body, 1, SetMin(dots) - 1)
        frac == IF dots = {} THEN << >> ELSE SubSeq(body, SetMin(dots) + 1, Len(body))
        digits == whole \o frac
        magnitude == DigitsValue(whole, 0) * PercentScale
                       + (DigitsValue(frac, 0) * PercentScale) \div Pow10(Len(frac))
    IN  IF body = <<"n", "a", "n">> THEN NotFinite("nan")
        ELSE IF body = <<"i", "n", "f">>
             THEN NotFinite(IF signed /\ Head(s) = "-" THEN "-inf" ELSE "inf")
        ELSE IF \/ digits = << >>
                \/ Cardinality(dots) > 1
                \/ \E i \in 1..Len(digits) : ~IsDigit(digits[i])
             THEN FloatError
        ELSE Finite(IF signed /\ Head(s) = "-" THEN 0 - magnitude ELSE magnitude)

\* max(0, min(100, value)): min() keeps 100 unless value < 100, max() keeps
\* 0 unless the result is > 0; every comparison with nan is false
ClampPercent(value) ==
    CASE value.kind = "nan" -> 100 * PercentScale
      [] value.kind = "inf" -> 100 * PercentScale
      [] value.kind = "-inf" -> 0
      [] OTHER -> Max2(0, Min2(100 * PercentScale, value.x))

\* PwmOutput.set_pwm(gpio, duty): nothing once the handle is closed
HrvSetPwm(output, gpio, duty) ==
    IF ~output.handle THEN output
    ELSE [output EXCEPT !.pwm[gpio] = Max2(0, Min2(100 * PercentScale, duty))]

\* PwmOutput.set_digital(gpio, value)
HrvSetDigital(output, gpio, value) ==
    IF ~output.handle THEN output
    ELSE [output EXCEPT !.digital = IF value THEN 1 ELSE 0]

\* PwmOutput.stop(): writes low and duty 0, closes the chip
HrvOutputStop(output) ==
    IF ~output.handle THEN output
    ELSE [handle |-> FALSE, digital |-> 0, pwm |-> (18 :> 0) @@ (19 :> 0)]

\* a request: the topic (its kind and gpio) and the payload text
Request(kind, gpio, text) == [kind |-> kind, gpio |-> gpio, text |-> text, exc |-> ""]

\* payload.upper() in ("ON", "1", "TRUE"), for the payloads of the model
IsOn(text) ==
    text \in {<<"O", "N">>, <<"o", "n">>, <<"O", "n">>, <<"1">>,
              <<"T", "R", "U", "E">>, <<"t", "r", "u", "e">>}

\* _on_message(msg): the output after it, and the exception it caught
HrvHandle(output, kind, gpio, text) ==
    LET payload_text == Strip(text)
        value == FloatOfText(ReplaceComma(payload_text))
    IN  IF kind = "gpio17"
        THEN [output |-> HrvSetDigital(output, 17, IsOn(payload_text)), exc |-> ""]
        ELSE IF value.exc # "" THEN [output |-> output, exc |-> value.exc]
        ELSE IF kind = "pwm" /\ gpio \in {18, 19}
             THEN [output |-> HrvSetPwm(output, gpio, ClampPercent(value)), exc |-> ""]
             ELSE [output |-> output, exc |-> ""]

\* samples_per_publish = int(DEFAULT_CURRENT_PUBLISH_INTERVAL /
\* DEFAULT_CURRENT_SAMPLE_INTERVAL)
samples_per_publish == DEFAULT_CURRENT_PUBLISH_INTERVAL * TicksPerSecond

\* the buffer keeping its oldest readings when it is full
AppendSampleDropNewest(samples, power) ==
    IF Len(samples) + 1 > samples_per_publish THEN samples ELSE Append(samples, power)

\* append(power), then pop(0) if the buffer is longer than samples_per_publish
AppendSample(samples, power) ==
    LET appended == Append(samples, power)
    IN  IF Len(appended) > samples_per_publish THEN Tail(appended) ELSE appended

\* int(sorted_samples[len(sorted_samples) // 2]) of a non-empty buffer of
\* integer readings
Median(samples) == Sorted(samples)[(Len(samples) \div 2) + 1]

\* a value of _last_current_values: None or an int
NoValue == [set |-> FALSE, v |-> 0]
Value(v) == [set |-> TRUE, v |-> v]

\* the publish test without the forced publish
ShouldPublishOnChange(last_value, median_power, time_since_publish) ==
    ~last_value.set \/ median_power # last_value.v

\* should_publish
ShouldPublish(last_value, median_power, time_since_publish) ==
    \/ ~last_value.set
    \/ median_power # last_value.v
    \/ time_since_publish >= DEFAULT_CURRENT_FORCE_INTERVAL * TicksPerSecond

\* the channels in the order of the dict self._current_samples
ChannelOrder == <<0, 1>>

\* the channels _maybe_publish_current publishes at time t, in dict order
PublishingChannels(samples, last_values, last_publish, t) ==
    SelectSeq(ChannelOrder,
              LAMBDA ch : /\ samples[ch] # << >>
                          /\ ShouldPublish(last_values[ch], Median(samples[ch]),
                                           t - last_publish[ch]))

\* client.publish(topic, f"{median_power}", retain=True)
Message(channel, median_power, t) ==
    [channel |-> channel, value |-> median_power, payload |-> StrOfInt(median_power),
     time |-> t]

\* what read_all() returns to the loop: 45 W or 46 W on channel 0 with 0 W
\* on channel 1, 47 W with 7 W, or {} when the read failed
LoopReadings == {(0 :> 45) @@ (1 :> 0), (0 :> 46) @@ (1 :> 0), (0 :> 47) @@ (1 :> 7), << >>}

\* the ticks an iteration takes: the sleep alone, or with a read that
\* blocks, so that a publish check comes 299 or 300 ticks after a publish
Durations == {1, 295, 296}

\* the iterations a run of the loop makes, and the ticks it lasts
MaxIterations == 15
MaxElapsed == 320

\* hrv_bridge HrvBridge.start() up to loop_forever(): the outputs are
\* written low and 0 and the current thread is started
HrvStart ==
    /\ hrv_msg.kind = "none"
    /\ hrv_running' = TRUE
    /\ hrv_output' = HrvSetPwm(HrvSetPwm(HrvSetDigital(hrv_output, 17, FALSE), 18, 0), 19, 0)
    /\ hrv_msg' = Request("start", 0, << >>)
    /\ loop' = [loop EXCEPT !.pc = "started"]
    /\ UNCHANGED <<current_samples, last_current_values, last_current_publish, now, published>>
    /\ UNCHANGED <<managerVars, sensorVars, dacVars>>

\* _on_message(client, userdata, msg)
HrvOnMessage(kind, gpio, text) ==
    LET h == HrvHandle(hrv_output, kind, gpio, text)
    IN  /\ hrv_msg.kind # "none"
        /\ hrv_output' = h.output
        /\ hrv_msg' = [Request(kind, gpio, text) EXCEPT !.exc = h.exc]
        /\ UNCHANGED <<hrv_running, loop, current_samples, last_current_values,
                       last_current_publish, now, published>>
        /\ UNCHANGED <<managerVars, sensorVars, dacVars>>

\* hrv_bridge HrvBridge.stop(): the threads see running = False; the
\* outputs are written low and 0 and the chip is closed
HrvStop ==
    /\ hrv_msg.kind # "none"
    /\ hrv_running' = FALSE
    /\ hrv_output' = HrvOutputStop(HrvSetPwm(HrvSetPwm(HrvSetDigital(hrv_output, 17, FALSE),
                                                       18, 0), 19, 0))
    /\ hrv_msg' = Request("stop", 0, << >>)
    /\ UNCHANGED <<loop, current_samples, last_current_values, last_current_publish, now,
                   published>>
    /\ UNCHANGED <<managerVars, sensorVars, dacVars>>

\* _current_loop up to its while: the tracking of each channel is set up
CurrentLoopBegin ==
    /\ loop.pc = "started"
    /\ loop' = [loop EXCEPT !.pc = "loop", !.sample_count = 0]
    /\ last_current_values' = [ch \in Channels |-> NoValue]
    /\ last_current_publish' = [ch \in Channels |-> 0]
    /\ current_samples' = [ch \in Channels |-> << >>]
    /\ UNCHANGED <<hrv_running, hrv_output, hrv_msg, now, published>>
    /\ UNCHANGED <<managerVars, sensorVars, dacVars>>

\* One iteration of the while loop.  read_all() returns the dict readings
\* ({} when the read failed); the iteration, with its read and its sleep,
\* ends duration ticks after the publish check of the one before.
CurrentLoopIteration(read, duration) ==
    LET samples == [ch \in Channels |->
                       IF ch \in DOMAIN read THEN AppendSample(current_samples[ch], read[ch])
                       ELSE current_samples[ch]]
        count == loop.sample_count + 1
        check == count >= samples_per_publish
        t == now + duration
        chans == IF check
                 THEN PublishingChannels(samples, last_current_values, last_current_publish, t)
                 ELSE << >>
    IN  /\ loop.pc = "loop"
        /\ hrv_running
        /\ loop.iterations < MaxIterations
        /\ t - StartTime <= MaxElapsed
        /\ now' = t
        /\ current_samples' = samples
        /\ loop' = [loop EXCEPT !.sample_count = IF check THEN 0 ELSE count,
                                !.iterations = @ + 1, !.readings = read]
        /\ published' = published \o [i \in 1..Len(chans) |->
                                         Message(chans[i], Median(samples[chans[i]]), t)]
        /\ last_current_values' =
               [ch \in Channels |->
                   IF ch \in Range(chans) THEN Value(Median(samples[ch]))
                   ELSE last_current_values[ch]]
        /\ last_current_publish' =
               [ch \in Channels |-> IF ch \in Range(chans) THEN t ELSE last_current_publish[ch]]
        /\ UNCHANGED <<hrv_running, hrv_output, hrv_msg>>
        /\ UNCHANGED <<managerVars, sensorVars, dacVars>>

\* `while self.running` finds running False: the thread ends
CurrentLoopExit ==
    /\ loop.pc = "loop"
    /\ ~hrv_running
    /\ loop' = [loop EXCEPT !.pc = "exited"]
    /\ UNCHANGED <<hrv_running, hrv_output, hrv_msg, current_samples, last_current_values,
                   last_current_publish, now, published>>
    /\ UNCHANGED <<managerVars, sensorVars, dacVars>>

CurrentLoopNext ==
    \/ HrvStart
    \/ CurrentLoopBegin
    \/ \E read \in LoopReadings, duration \in Durations : CurrentLoopIteration(read, duration)
    \/ HrvStop
    \/ CurrentLoopExit

CurrentLoopSpec == Init /\ [][CurrentLoopNext]_vars

(***************************************************************************)
(* The routing bridge (dac_bridge) in PWM mode: each GPIO follows the      *)
(* value of its configured source through its calibration table.          *)
(*                                                                         *)
(* A topic is [kind, gpio, source]: "table" for                            *)
(* {prefix}/calibration/gpio{gpio}/table, "source" for                     *)
(* {prefix}/gpio{gpio}/source, "set" for {prefix}/{source}/set, "unknown"  *)
(* for any other.  The payload of a table topic is the JSON document,      *)
(* every other payload is the sequence of its characters.  The bridge's    *)
(* CalibrationManager is tables, mqtt_loaded, order.                       *)
(***************************************************************************)
VALID_SOURCES == {"power", "intake", "exhaust", "test", "off"}

Topic(kind, gpio, source) == [kind |-> kind, gpio |-> gpio, source |-> source]

\* the topic of the message handled last and the exception caught
DacRequest(topic, exc) ==
    [kind |-> topic.kind, gpio |-> topic.gpio, source |-> topic.source, exc |-> exc]

\* str.lower() on the letters of the payloads of the model
UpperChars == <<"A", "E", "F", "H", "I", "K", "N", "O", "P", "R", "S", "T", "U", "W", "X">>
LowerChars == <<"a", "e", "f", "h", "i", "k", "n", "o", "p", "r", "s", "t", "u", "w", "x">>
Lower(s) ==
    [i \in 1..Len(s) |->
        IF \E j \in 1..Len(UpperChars) : UpperChars[j] = s[i]
        THEN LowerChars[CHOOSE j \in 1..Len(UpperChars) : UpperChars[j] = s[i]]
        ELSE s[i]]

\* the source a text names, "" when it names none
SourceTexts ==
    [power |-> <<"p", "o", "w", "e", "r">>, intake |-> <<"i", "n", "t", "a", "k", "e">>,
     exhaust |-> <<"e", "x", "h", "a", "u", "s", "t">>, test |-> <<"t", "e", "s", "t">>,
     off |-> <<"o", "f", "f">>]
SourceNamed(text) ==
    IF \E source \in VALID_SOURCES : SourceTexts[source] = text
    THEN CHOOSE source \in VALID_SOURCES : SourceTexts[source] = text
    ELSE ""

\* the bridge: its calibration manager, its output driver, its source
\* values and the source of each GPIO
Bridge(tabs, loaded, ord, defs, output, srcs, config) ==
    [tables |-> tabs, mqtt_loaded |-> loaded, order |-> ord, defaults |-> defs,
     output |-> output, sources |-> srcs, gpio_config |-> config]

\* PwmOutput.set_gpio(gpio, percent): the duty of the calibration table is
\* sent to the pin; nothing once the handle is closed
DacSetGpio(output, tabs, gpio, percent) ==
    IF ~output.handle THEN output
    ELSE [output EXCEPT !.duty[gpio] =
              GetPwmForPercent(tabs, gpio, Max2(0, Min2(100 * PercentScale, percent)))]

\* PwmOutput.stop() that closes the chip without writing
DacOutputStopNoWrite(output) ==
    IF ~output.handle THEN output
    ELSE [output EXCEPT !.handle = FALSE]

\* PwmOutput.stop(): duty 0 on both pins, the chip closed
DacOutputStop(output) ==
    IF ~output.handle THEN output
    ELSE [handle |-> FALSE, duty |-> (18 :> RetNumber(0, 1)) @@ (19 :> RetNumber(0, 1))]

\* _update_gpio(gpio)
UpdateGpio(b, gpio) ==
    IF b.gpio_config[gpio] = "off"
    THEN [b EXCEPT !.output = DacSetGpio(b.output, b.tables, gpio, 0)]
    ELSE LET value == IF b.gpio_config[gpio] \in DOMAIN b.sources
                      THEN b.sources[b.gpio_config[gpio]] ELSE 0
         IN  [b EXCEPT !.output = DacSetGpio(b.output, b.tables, gpio, value)]

\* _update_gpios_using_source(source)
UpdateGpiosUsingSource(b, source) ==
    LET b18 == IF b.gpio_config[18] = source THEN UpdateGpio(b, 18) ELSE b
    IN  IF b18.gpio_config[19] = source THEN UpdateGpio(b18, 19) ELSE b18

\* the handling of a table topic that does not apply the table to the pin
HandleCalibrationNoReapply(b, gpio, data) ==
    LET o == UpdateFromMqtt(b.tables, b.mqtt_loaded, gpio, data)
        updated == [b EXCEPT !.tables = o.tables, !.mqtt_loaded = o.mqtt_loaded,
                             !.order = IF o.ret = RetBool(TRUE)
                                       THEN [b.order EXCEPT ![gpio] =
                                                InsertionOrder(data.entries, 1, << >>)]
                                       ELSE b.order,
                             !.defaults = IF o.ret = RetBool(TRUE)
                                          THEN Assigned(b.defaults, gpio, o.tables[gpio])
                                          ELSE b.defaults]
    IN  IF o.ret.kind = "raise" THEN [bridge |-> b, exc |-> o.ret.exc]
        ELSE [bridge |-> updated, exc |-> ""]

\* _on_message for a table topic: update_from_mqtt(gpio, payload), then
\* _update_gpio(gpio) unless the update raised
HandleCalibration(b, gpio, data) ==
    LET o == UpdateFromMqtt(b.tables, b.mqtt_loaded, gpio, data)
        updated == [b EXCEPT !.tables = o.tables, !.mqtt_loaded = o.mqtt_loaded,
                             !.order = IF o.ret = RetBool(TRUE)
                                       THEN [b.order EXCEPT ![gpio] =
                                                InsertionOrder(data.entries, 1, << >>)]
                                       ELSE b.order,
                             !.defaults = IF o.ret = RetBool(TRUE)
                                          THEN Assigned(b.defaults, gpio, o.tables[gpio])
                                          ELSE b.defaults]
    IN  IF o.ret.kind = "raise" THEN [bridge |-> b, exc |-> o.ret.exc]
        ELSE [bridge |-> UpdateGpio(updated, gpio), exc |-> ""]

\* _handle_gpio_source(gpio, payload)
HandleGpioSource(b, gpio, text) ==
    LET source == SourceNamed(Lower(text))
        selected == [b EXCEPT !.gpio_config[gpio] = source]
    IN  IF source \notin VALID_SOURCES THEN [bridge |-> b, exc |-> ""]
        ELSE IF source # b.gpio_config[gpio]
             THEN [bridge |-> UpdateGpio(selected, gpio), exc |-> ""]
             ELSE [bridge |-> selected, exc |-> ""]

\* _handle_source_value(source, payload): a ValueError of float() is caught
\* here; self.sources[source] raises KeyError for "off"
HandleSourceValue(b, source, text) ==
    LET parsed == FloatOfText(ReplaceComma(text))
        value == ClampPercent(parsed)
        stored == [b EXCEPT !.sources[source] = value]
    IN  IF parsed.exc # "" THEN [bridge |-> b, exc |-> ""]
        ELSE IF source \notin DOMAIN b.sources THEN [bridge |-> b, exc |-> "KeyError"]
        ELSE IF value # b.sources[source]
             THEN [bridge |-> UpdateGpiosUsingSource(stored, source), exc |-> ""]
             ELSE [bridge |-> stored, exc |-> ""]

\* _on_message(client, userdata, msg): the bridge after it and the exception
\* its `except Exception` caught
DacHandle(b, topic, text, data) ==
    CASE topic.kind = "table" -> HandleCalibration(b, topic.gpio, data)
      [] topic.kind = "source" -> HandleGpioSource(b, topic.gpio, Strip(text))
      [] topic.kind = "set" -> HandleSourceValue(b, topic.source, Strip(text))
      [] OTHER -> [bridge |-> b, exc |-> ""]

\* the bridge of the state
TheBridge == Bridge(tables, mqtt_loaded, order, defaults, dac_output, sources, gpio_config)

\* the topics the bridge subscribes to and one it does not; the sources of
\* the model's value messages
TableTopics == {Topic("table", gpio, "") : gpio \in {18, 19}}
SourceTopics == {Topic("source", gpio, "") : gpio \in {18, 19}}
SetTopics == {Topic("set", 0, source) : source \in {"intake", "test", "off"}}
UnknownTopics == {Topic("unknown", 0, "")}

\* table payloads: 0 -> 0 V, 100 -> 10 V; 50 -> 5.0005 V, 100 -> 10 V, with
\* no point at duty 0; a JSON array, on which data.items() raises; text that
\* is not JSON
TablePayloads ==
    {Object(Pick({2, 12})), Object(Pick({4, 12})), Scalar("arr_nonempty"), Scalar("invalid")}

\* payloads of the source topics
SourcePayloads ==
    {<<"o", "f", "f">>, <<"O", "F", "F">>, <<"t", "e", "s", "t">>,
     <<"I", "n", "t", "a", "k", "e">>, <<" ", "e", "x", "h", "a", "u", "s", "t">>,
     <<"o", "n">>}

\* payloads of the value topics: 45.5 with a comma, 150 and nan (both
\* stored as 100), and a text that is no number
ValuePayloads ==
    {<<"4", "5", ",", "5">>, <<"1", "5", "0">>, <<"n", "a", "n">>, <<"a", "b", "c">>}

\* dac_bridge HrvBridge.start() up to loop_forever(): both GPIOs are set
\* to 0 percent
DacStart ==
    /\ dac_msg.kind = "none"
    /\ dac_running' = TRUE
    /\ dac_output' = DacSetGpio(DacSetGpio(dac_output, tables, 18, 0), tables, 19, 0)
    /\ dac_msg' = DacRequest(Topic("start", 0, ""), "")
    /\ UNCHANGED <<sources, gpio_config>>
    /\ UNCHANGED <<managerVars, sensorVars, hrvVars>>

\* _on_message(client, userdata, msg), for a message that arrives while the
\* bridge runs or after stop()
DacOnMessage(topic, text, data) ==
    \E h \in {DacHandle(TheBridge, topic, text, data)} :
        /\ dac_msg.kind # "none"
        /\ tables' = h.bridge.tables
        /\ mqtt_loaded' = h.bridge.mqtt_loaded
        /\ order' = h.bridge.order
        /\ defaults' = h.bridge.defaults
        /\ dac_output' = h.bridge.output
        /\ sources' = h.bridge.sources
        /\ gpio_config' = h.bridge.gpio_config
        /\ dac_msg' = DacRequest(topic, h.exc)
        /\ UNCHANGED dac_running
        /\ UNCHANGED <<frameVars, threadVars, sensorVars, hrvVars>>

\* dac_bridge HrvBridge.stop(): both GPIOs are set to 0 percent, then the
\* driver writes duty 0 and closes the chip
DacStop ==
    /\ dac_msg.kind # "none"
    /\ dac_running' = FALSE
    /\ dac_output' = DacOutputStop(DacSetGpio(DacSetGpio(dac_output, tables, 18, 0),
                                              tables, 19, 0))
    /\ dac_msg' = DacRequest(Topic("stop", 0, ""), "")
    /\ UNCHANGED <<sources, gpio_config>>
    /\ UNCHANGED <<managerVars, sensorVars, hrvVars>>

DacNext ==
    \/ DacStart
    \/ \E topic \in TableTopics, data \in TablePayloads : DacOnMessage(topic, << >>, data)
    \/ \E topic \in SourceTopics, text \in SourcePayloads : DacOnMessage(topic, text, NoPayload)
    \/ \E topic \in SetTopics, text \in ValuePayloads : DacOnMessage(topic, text, NoPayload)
    \/ \E topic \in UnknownTopics, text \in ValuePayloads : DacOnMessage(topic, text, NoPayload)
    \/ DacStop

DacSpec == Init /\ [][DacNext]_vars

(***************************************************************************)
(* Shutdown of the two bridges.  stop() is called by the signal handler    *)
(* and again by the finally block of start(); a request can still be in    *)
(* the client's queue when it runs.  Each bridge is its own process.       *)
(***************************************************************************)
\* the requests to the simple bridge: the valve, the two PWM outputs, and a
\* topic it does not know
HrvTopics == {<<"gpio17", 17>>, <<"pwm", 18>>, <<"pwm", 19>>, <<"unknown", 0>>}
HrvPayloads == {<<"O", "N">>, <<"o", "f", "f">>, <<"6", "0">>, <<"1", "5", "0">>,
                <<"a", "b", "c">>}

\* the requests to the routing bridge: a table without a point at duty 0
\* for GPIO 18, a source for GPIO 18, a value for `test`
StopTablePayloads == {Object(Pick({4, 12}))}
StopSourcePayloads == {<<"o", "f", "f">>, <<"t", "e", "s", "t">>}
StopValuePayloads == {<<"4", "5", ",", "5">>}

StopNext ==
    \/ HrvStart
    \/ \E topic \in HrvTopics, text \in HrvPayloads : HrvOnMessage(topic[1], topic[2], text)
    \/ HrvStop
    \/ DacStart
    \/ \E data \in StopTablePayloads : DacOnMessage(Topic("table", 18, ""), << >>, data)
    \/ \E text \in StopSourcePayloads : DacOnMessage(Topic("source", 18, ""), text, NoPayload)
    \/ \E text \in StopValuePayloads : DacOnMessage(Topic("set", 0, "test"), text, NoPayload)
    \/ DacStop

StopSpec == Init /\ [][StopNext]_vars

(***************************************************************************)
(* Claims                                                                  *)
(***************************************************************************)

(***************************************************************************)
(* C1  A rejected update_from_mqtt call changes nothing.                   *)
(***************************************************************************)
\* the call just made is update_from_mqtt and it did not return True
UpdateRejected ==
    call.op = "update_from_mqtt" /\ ret # RetBool(TRUE)

\* C1: a step that is an update_from_mqtt call which does not succeed
\* (unknown channel, empty object, invalid JSON, a key or value that does not
\* convert, fewer than 2 in-range entries) leaves the table and the
\* externally-loaded flag of every channel as they were; get_pwm_for_percent
\* reads nothing but the tables, so it returns what it returned before.
C1_RejectedUpdateChangesNothing ==
    [][UpdateRejected' =>
         /\ \A g \in {18, 19} : tables'[g] = tables[g] /\ mqtt_loaded'[g] = mqtt_loaded[g]
         /\ DOMAIN tables' = DOMAIN tables
         /\ DOMAIN mqtt_loaded' = DOMAIN mqtt_loaded]_vars

\* a call with two in-range entries and a key that is no integer is rejected
\* on a channel that holds a table installed earlier
C1_Witness ==
    /\ call = Call("update_from_mqtt", 18, 0)
    /\ ret = RetBool(FALSE)
    /\ payload = Object(<<Entry(<<"0">>, Num(Volt(0, 0))),
                           Entry(<<"1", "0", "0">>, Num(Volt(10, 0))),
                           Entry(<<"x">>, Num(Volt(5, 0)))>>)
    /\ tables[18] = PWM_CALIBRATION_LINEAR
    /\ mqtt_loaded[18]

(***************************************************************************)
(* C2  update_from_mqtt never raises.                                      *)
(***************************************************************************)
\* C2: every update_from_mqtt call returns a boolean, and returns False when
\* the payload is not a JSON object.
C2_UpdateNeverRaises ==
    call.op = "update_from_mqtt" =>
        /\ ret.kind = "bool"
        /\ payload.kind # "object" => ~ret.ok

(***************************************************************************)
(* C3  What a successful update installs.                                  *)
(***************************************************************************)
\* the payload of the call is a non-empty JSON object every key of which
\* converts with int() and every value with float()
UpdateWithParsingObject ==
    /\ call.op = "update_from_mqtt"
    /\ call.gpio \in {18, 19}
    /\ payload.kind = "object"
    /\ payload.entries # << >>
    /\ \A i \in 1..Len(payload.entries) :
          /\ IntOfStr(payload.entries[i].k).exc = ""
          /\ FloatOf(payload.entries[i].v).exc = ""

DutyOf(e) == IntOfStr(e.k).n
VoltageOf(e) == FloatOf(e.v).x

\* the positions of the entries with duty in [0, 100] and voltage in [0, 12]
InRangeEntries(entries) ==
    {i \in 1..Len(entries) :
        /\ 0 <= DutyOf(entries[i]) /\ DutyOf(entries[i]) <= 100
        /\ 0 <= VoltageOf(entries[i]) /\ VoltageOf(entries[i]) <= 12 * VoltScale}

PairsOfTable(table) == {<<d, table[d]>> : d \in DOMAIN table}
PairsOfEntries(entries, S) == {<<DutyOf(entries[i]), VoltageOf(entries[i])>> : i \in S}

\* C3 as claimed: with at least 2 in-range entries the call returns True and
\* the table installed holds exactly the in-range entries.
C3_InstallsEveryInRangeEntry ==
    (UpdateWithParsingObject /\ Cardinality(InRangeEntries(payload.entries)) >= 2) =>
        /\ ret = RetBool(TRUE)
        /\ PairsOfTable(tables[call.gpio])
             = PairsOfEntries(payload.entries, InRangeEntries(payload.entries))

\* C3 as amended: the in-range entries are kept per duty, the last one in
\* document order winning when two keys spell the same integer; the call
\* returns True, installs that table and sets the flag exactly when at least
\* 2 distinct duties remain, and returns False otherwise.  Out-of-range
\* entries are dropped one by one.
C3_InstallsLastInRangeEntryPerDuty ==
    UpdateWithParsingObject =>
        LET entries == payload.entries
            valid == InRangeEntries(entries)
            duties == {DutyOf(entries[i]) : i \in valid}
            last(d) == SetMax({i \in valid : DutyOf(entries[i]) = d})
        IN  IF Cardinality(duties) >= 2
            THEN /\ ret = RetBool(TRUE)
                 /\ DOMAIN tables[call.gpio] = duties
                 /\ \A d \in duties : tables[call.gpio][d] = VoltageOf(entries[last(d)])
                 /\ mqtt_loaded[call.gpio]
            ELSE ret = RetBool(FALSE)

\* an entry of duty 101 is dropped behind two entries on the bounds of the
\* ranges (duty 0 at 0 V, and 12 V), and the call succeeds
C3_Witness ==
    /\ call = Call("update_from_mqtt", 19, 0)
    /\ payload = Object(<<Entry(<<"0">>, Num(Volt(0, 0))),
                           Entry(<<"5", "0">>, Num(Volt(12, 0))),
                           Entry(<<"1", "0", "1">>, Num(Volt(5, 0)))>>)
    /\ ret = RetBool(TRUE)
    /\ tables[19] = (0 :> Volt(0, 0)) @@ (50 :> Volt(12, 0))

(***************************************************************************)
(* Reference for the inverse interpolation, written from the definition    *)
(* of the bracketing points and not as a loop.                             *)
(***************************************************************************)
\* the call just made is get_pwm_for_percent on a channel with a table
GetOnTable == call.op = "get_pwm_for_percent" /\ call.gpio \in DOMAIN tables

\* the points by ascending duty: the i-th point is the one with i - 1
\* smaller duties
RefPoints(table) ==
    [i \in 1..Cardinality(DOMAIN table) |->
        LET d == CHOOSE e \in DOMAIN table :
                     Cardinality({f \in DOMAIN table : f < e}) = i - 1
        IN  <<d, table[d]>>]

RefVoltages(table) == {table[d] : d \in DOMAIN table}

\* the target voltage of a percent, brought into [min voltage, max voltage]
RefTarget(table, percent) ==
    LET t == TargetVoltage(percent)
    IN  IF t < SetMin(RefVoltages(table)) THEN SetMin(RefVoltages(table))
        ELSE IF t > SetMax(RefVoltages(table)) THEN SetMax(RefVoltages(table))
        ELSE t

\* the positions of the points with voltage >= t
AtOrAbove(pts, t) == {i \in 1..Len(pts) : pts[i][2] >= t}

\* upper: the first point with voltage >= t
RefUpper(pts, t) == pts[SetMin(AtOrAbove(pts, t))]

\* lower: the last point with voltage <= t up to upper; if there is none,
\* upper is the first point and lower is that point too
RefLower(pts, t) ==
    LET seen == {i \in 1..SetMin(AtOrAbove(pts, t)) : pts[i][2] <= t}
    IN  IF seen = {} THEN pts[1] ELSE pts[SetMax(seen)]

\* the two voltages differ by less than 0.001 V
RefDegenerate(lower, upper) ==
    (upper[2] - lower[2]) * 1000 < VoltScale /\ (lower[2] - upper[2]) * 1000 < VoltScale

RefDuty(table, percent) ==
    LET pts == RefPoints(table)
        t == RefTarget(table, percent)
        lower == RefLower(pts, t)
        upper == RefUpper(pts, t)
    IN  IF RefDegenerate(lower, upper)
        THEN RetNumber(lower[1], 1)
        ELSE RetNumber(lower[1] * (upper[2] - lower[2])
                         + (t - lower[2]) * (upper[1] - lower[1]),
                       upper[2] - lower[2])

(***************************************************************************)
(* C4  Requests outside [0, 100].                                          *)
(***************************************************************************)
\* C4 as claimed: on a channel with a table, 150 percent returns what 100
\* percent returns and -10 percent what 0 percent returns.
C4_PercentIsClamped ==
    GetOnTable =>
        /\ call.percent = 150 * PercentScale
             => ret = GetPwmForPercent(tables, call.gpio, 100 * PercentScale)
        /\ call.percent = (0 - 10) * PercentScale
             => ret = GetPwmForPercent(tables, call.gpio, 0)

\* the lowest duty among the points with the largest voltage of the table
FirstMaxDuty(table) ==
    SetMin({d \in DOMAIN table : table[d] = SetMax(RefVoltages(table))})

\* C4 as amended: the percent is not clamped, the target voltage is clamped
\* into the voltage range of the table.  -10 percent returns what 0 percent
\* returns; 150 percent returns the lowest duty that has the largest voltage
\* of the table, which is what 100 percent returns whenever that largest
\* voltage is at most 10 V.
C4_TargetVoltageIsClamped ==
    GetOnTable =>
        LET table == tables[call.gpio]
        IN  /\ call.percent = (0 - 10) * PercentScale
                 => ret = GetPwmForPercent(tables, call.gpio, 0)
            /\ call.percent = 150 * PercentScale
                 => /\ ret = RetNumber(FirstMaxDuty(table), 1)
                    /\ SetMax(RefVoltages(table)) <= 10 * VoltScale
                         => ret = GetPwmForPercent(tables, call.gpio, 100 * PercentScale)

\* 150 percent is asked of a table whose largest voltage, 5 V, is held by
\* the point of duty 0 and not by the last point
C4_Witness ==
    /\ call = Call("get_pwm_for_percent", 18, 150 * PercentScale)
    /\ tables[18] = (0 :> Volt(5, 0)) @@ (50 :> Volt(0, 0))
    /\ ret = RetNumber(0, 1)

(***************************************************************************)
(* C5  A channel without a table.                                          *)
(***************************************************************************)
GetWithoutTable == call.op = "get_pwm_for_percent" /\ call.gpio \notin DOMAIN tables

\* C5 as claimed: the result is the inverse interpolation over the linear
\* table {0: 0 V, 100: 10 V}, the percent clamped to [0, 100].
C5_FallbackInterpolatesLinearTable ==
    GetWithoutTable =>
        ret = PwmForVoltage(TargetVoltage(call.percent), PWM_CALIBRATION_LINEAR)

\* C5 as amended: the result is the requested percent itself, not clamped;
\* it is the inverse interpolation over the linear table for a percent in
\* [0, 100]; the call never fails.
C5_FallbackReturnsPercent ==
    GetWithoutTable =>
        /\ ret.kind = "duty"
        /\ ret.num * PercentScale = call.percent * ret.den
        /\ (0 <= call.percent /\ call.percent <= 100 * PercentScale)
             => ret = PwmForVoltage(TargetVoltage(call.percent), PWM_CALIBRATION_LINEAR)

\* 150 percent is asked of channel 17 and comes back as 150
C5_Witness ==
    /\ call = Call("get_pwm_for_percent", 17, 150 * PercentScale)
    /\ ret = RetNumber(150, 1)

(***************************************************************************)
(* C6  get_pwm_for_percent has no failure path.                            *)
(***************************************************************************)
\* C6: every get_pwm_for_percent call returns a number - it neither divides
\* by zero nor fails otherwise, whatever tables the updates so far have
\* installed - and when the voltages of the bracketing points differ by less
\* than 0.001 V the number is the duty of the lower point.
C6_GetAlwaysReturnsADuty ==
    call.op = "get_pwm_for_percent" =>
        /\ ret.kind = "duty"
        /\ GetOnTable =>
             LET table == tables[call.gpio]
                 pts == RefPoints(table)
                 t == RefTarget(table, call.percent)
             IN  RefDegenerate(RefLower(pts, t), RefUpper(pts, t))
                   => ret = RetNumber(RefLower(pts, t)[1], 1)

\* the target lies strictly between the voltages of two points that are
\* 0.0005 V apart, and the duty of the lower one is returned
C6_Witness ==
    /\ call = Call("get_pwm_for_percent", 19, PercentFor(Volt(5, 0) + 1))
    /\ tables[19] = (0 :> Volt(5, 0)) @@ (50 :> Volt(5, 5))
    /\ ret = RetNumber(0, 1)

(***************************************************************************)
(* C7  Exact-point return.                                                 *)
(***************************************************************************)
\* C7 as claimed: for every entry (d, v) of the table with v <= 10 V, the
\* percent whose target voltage is v returns d.
C7_EveryEntryReturnsItsDuty ==
    GetOnTable =>
        \A d \in DOMAIN tables[call.gpio] :
            (/\ tables[call.gpio][d] <= 10 * VoltScale
             /\ call.percent = PercentFor(tables[call.gpio][d]))
                => ret = RetNumber(d, 1)

\* C7 as amended: the same for every entry (d, v) that is the first point, by
\* ascending duty, with a voltage >= v, that is when every point of lower
\* duty has a voltage below v (every entry of a table with strictly
\* increasing voltages).
C7_FirstEntryAtVoltageReturnsItsDuty ==
    GetOnTable =>
        \A d \in DOMAIN tables[call.gpio] :
            (/\ tables[call.gpio][d] <= 10 * VoltScale
             /\ call.percent = PercentFor(tables[call.gpio][d])
             /\ \A e \in DOMAIN tables[call.gpio] :
                    e < d => tables[call.gpio][e] < tables[call.gpio][d])
                => ret = RetNumber(d, 1)

\* 100 percent is asked of a table whose voltages fall and rise again; duty
\* 100 is the first point at 10 V or above, and 100 is returned
C7_Witness ==
    /\ call = Call("get_pwm_for_percent", 18, PercentFor(Volt(10, 0)))
    /\ tables[18] = (0 :> Volt(5, 0)) @@ (50 :> Volt(0, 0)) @@ (100 :> Volt(10, 0))
    /\ ret = RetNumber(100, 1)

UpdateWithValidEntries ==
    /\ UpdateWithParsingObject
    /\ ret = RetBool(TRUE)
    /\ InRangeEntries(payload.entries) = 1..Len(payload.entries)

\* the keys of a JSON object are in ascending order of their integers
AscendingDuties(entries) ==
    \A i, j \in 1..Len(entries) : i < j => DutyOf(entries[i]) < DutyOf(entries[j])

\* update_from_mqtt with the text export_json returns for the channel
Reimport(gpio) == UpdateFromMqtt(tables, mqtt_loaded, gpio, ExportJson(tables, gpio))

\* C9 as claimed: after a successful update whose payload entries are all
\* valid, export_json holds exactly the (duty, voltage) pairs of the payload,
\* by ascending integer duty, and update_from_mqtt with the exported text
\* succeeds and leaves the table as it is.
C9_ExportReproducesPayload ==
    UpdateWithValidEntries =>
        LET exported == ExportJson(tables, call.gpio).entries
        IN  /\ PairsOfEntries(exported, 1..Len(exported))
                 = PairsOfEntries(payload.entries, 1..Len(payload.entries))
            /\ AscendingDuties(exported)
            /\ Reimport(call.gpio).ret = RetBool(TRUE)
            /\ Reimport(call.gpio).tables = tables

\* no two keys of the payload spell the same integer
DistinctDuties(entries) ==
    \A i, j \in 1..Len(entries) : DutyOf(entries[i]) = DutyOf(entries[j]) => i = j

\* C9 as amended: the export holds exactly the pairs of the payload when, in
\* addition, no two keys of the payload spell the same integer duty; in
\* every case it holds the pairs of the installed table by ascending integer
\* duty, and update_from_mqtt with the text export_json returned succeeds and
\* leaves the table as it is.
C9_ExportRoundTrip ==
    /\ UpdateWithValidEntries =>
         LET exported == ExportJson(tables, call.gpio).entries
         IN  /\ DistinctDuties(payload.entries)
                  => PairsOfEntries(exported, 1..Len(exported))
                       = PairsOfEntries(payload.entries, 1..Len(payload.entries))
             /\ PairsOfEntries(exported, 1..Len(exported)) = PairsOfTable(tables[call.gpio])
             /\ AscendingDuties(exported)
             /\ Reimport(call.gpio).ret = RetBool(TRUE)
             /\ Reimport(call.gpio).tables = tables
    /\ (call.op = "export_json" /\ call.gpio \in DOMAIN tables) =>
         /\ PairsOfEntries(out.entries, 1..Len(out.entries)) = PairsOfTable(tables[call.gpio])
         /\ AscendingDuties(out.entries)
         /\ UpdateFromMqtt(tables, mqtt_loaded, call.gpio, out).ret = RetBool(TRUE)
         /\ UpdateFromMqtt(tables, mqtt_loaded, call.gpio, out).tables = tables

\* an update with three valid entries, the key "00" and 5.0005 V among them,
\* has succeeded, and the export of the channel lists them under the keys
\* "0", "50", "100"
C9_Witness ==
    /\ call = Call("update_from_mqtt", 18, 0)
    /\ ret = RetBool(TRUE)
    /\ payload = Object(<<Entry(<<"0", "0">>, Num(Volt(5, 0))),
                           Entry(<<"5", "0">>, Num(Volt(5, 5))),
                           Entry(<<"1", "0", "0">>, Num(Volt(10, 0)))>>)
    /\ ExportJson(tables, 18) = Object(<<Entry(<<"0">>, Num(Volt(5, 0))),
                                         Entry(<<"5", "0">>, Num(Volt(5, 5))),
                                         Entry(<<"1", "0", "0">>, Num(Volt(10, 0)))>>)

(***************************************************************************)
(* C10  The scan of _pwm_for_voltage against the reference.                *)
(***************************************************************************)
\* C10: for every get_pwm_for_percent call on a channel with a table, with
\* the points by ascending duty and the target clamped into the voltage
\* range of the table: a point with voltage >= target exists and the loop
\* ends in its break at the first one, which is upper; lower is the last
\* point with voltage <= target seen up to there (the first point when there
\* is none); and the call returns the duty of lower when the two voltages
\* differ by less than 0.001 V, and otherwise
\* lower.duty + (target - lower.v) / (upper.v - lower.v) * (upper.duty - lower.duty).
C10_ScanMatchesReference ==
    GetOnTable =>
        LET table == tables[call.gpio]
            pts == RefPoints(table)
            t == RefTarget(table, call.percent)
            scan == ScanLoop(SortedItems(table),
                             ClampTarget(TargetVoltage(call.percent), SortedItems(table)),
                             1, SortedItems(table)[1], SortedItems(table)[1])
        IN  /\ AtOrAbove(pts, t) # {}
            /\ scan.broke
            /\ scan.upper = RefUpper(pts, t)
            /\ scan.lower = RefLower(pts, t)
            /\ ret = RefDuty(table, call.percent)

\* 60 percent is asked of a table whose voltages fall and rise again: the
\* points of duty 0 (5 V) and 50 (0 V) are both below 6 V, lower is the later
\* one, upper is duty 100 (10 V), and the result is 50 + 6/10 * 50
C10_Witness ==
    /\ call = Call("get_pwm_for_percent", 18, 60 * PercentScale)
    /\ tables[18] = (0 :> Volt(5, 0)) @@ (50 :> Volt(0, 0)) @@ (100 :> Volt(10, 0))
    /\ ret = RetNumber(80, 1)

(***************************************************************************)
(* C11  Tie-break between points of equal voltage.                         *)
(***************************************************************************)
\* the voltages of the points do not fall as the duty rises
NonDecreasing(pts) ==
    \A i \in 1..Len(pts), j \in 1..Len(pts) : i < j => pts[i][2] <= pts[j][2]

\* the duties of the points whose voltage is v
DutiesAt(table, v) == {d \in DOMAIN table : table[d] = v}

\* C11: for every get_pwm_for_percent call on a channel whose table has
\* non-decreasing voltages and two or more points at the clamped target
\* voltage, the scan fixes upper at the one of them with the lowest duty and
\* the call returns that duty.
C11_TieBreakLowestDuty ==
    GetOnTable =>
        LET table == tables[call.gpio]
            t == RefTarget(table, call.percent)
            scan == ScanLoop(SortedItems(table), t, 1,
                             SortedItems(table)[1], SortedItems(table)[1])
        IN  (NonDecreasing(RefPoints(table)) /\ Cardinality(DutiesAt(table, t)) >= 2)
                => /\ scan.upper = <<SetMin(DutiesAt(table, t)), t>>
                   /\ ret = RetNumber(SetMin(DutiesAt(table, t)), 1)

\* 0 percent is asked of a table with 0 V at duty 0 and at duty 50: the
\* result is duty 0
C11_Witness ==
    /\ call = Call("get_pwm_for_percent", 19, 0)
    /\ tables[19] = (0 :> Volt(0, 0)) @@ (50 :> Volt(0, 0)) @@ (100 :> Volt(10, 0))
    /\ ret = RetNumber(0, 1)

(***************************************************************************)
(* C12  export_json and get_table are pure.                                *)
(***************************************************************************)
\* the sequence of JSON pairs e lists the items of the table by ascending duty
ListsAscending(e, table) ==
    /\ Len(e) = Cardinality(DOMAIN table)
    /\ \A i \in 1..Len(e) :
          /\ IntOfStr(e[i].k) = [exc |-> "", n |-> RefPoints(table)[i][1]]
          /\ e[i].v = Num(RefPoints(table)[i][2])

\* the table of a channel, empty for a channel without table
TableOrEmpty(gpio) == IF gpio \in DOMAIN tables THEN tables[gpio] ELSE EmptyTable

\* export_json returned the table by ascending duty, {} for an unknown channel
ExportReturnsSortedTable ==
    call.op = "export_json" => ListsAscending(out.entries, TableOrEmpty(call.gpio))

\* get_table returned the items of the table, {} for an unknown channel
GetTableReturnsItems ==
    call.op = "get_table" => got.table = TableOrEmpty(call.gpio)

\* the dict get_table returned has its keys in ascending order
GetTableReturnsAscending ==
    call.op = "get_table" =>
        \A i \in 1..Len(got.keys) : got.keys[i] = RefPoints(got.table)[i][1]

\* the dict get_table returned has its keys in the order of the table's dict
GetTableReturnsTableOrder ==
    call.op = "get_table" =>
        got.keys = (IF call.gpio \in DOMAIN tables THEN order[call.gpio] ELSE << >>)

\* neither call, and no write of the caller into the dict get_table returned,
\* changes a table or a flag of the manager
ReadsChangeNothing ==
    call'.op \in {"export_json", "get_table", "caller_set_item"}
        => UNCHANGED <<tables, mqtt_loaded, order>>

\* C12 as claimed: export_json and get_table change no table and no flag,
\* both return the current table ordered by ascending duty, an empty
\* structure for an unknown channel, and a write into the returned table does
\* not change the manager's table.
C12_PureAndAscending ==
    /\ [](ExportReturnsSortedTable /\ GetTableReturnsItems /\ GetTableReturnsAscending)
    /\ [][ReadsChangeNothing]_vars

\* C12 amended: export_json and get_table change no table and no flag;
\* export_json returns the current table ordered by ascending duty and "{}"
\* for an unknown channel; get_table returns the items of the current table
\* in the key order of the table's dict (the order of the payload that
\* installed it), {} for an unknown channel; a write into the dict get_table
\* returned does not change the manager's table.
C12_PureAndCopied ==
    /\ [](ExportReturnsSortedTable /\ GetTableReturnsItems /\ GetTableReturnsTableOrder)
    /\ [][ReadsChangeNothing]_vars

\* the payload {"100": 10, "0": 0} was installed on channel 18, get_table
\* returned {100: 10.0, 0: 0.0}, the caller wrote 99 V at duty 25 into it and
\* the manager's table is the installed one
C12_Witness ==
    /\ call = Call("caller_set_item", 18, 0)
    /\ got = Dict((0 :> Volt(0, 0)) @@ (25 :> Volt(99, 0)) @@ (100 :> Volt(10, 0)),
                  <<100, 0, 25>>, FALSE)
    /\ tables[18] = (0 :> Volt(0, 0)) @@ (100 :> Volt(10, 0))
    /\ order[18] = <<100, 0>>

(***************************************************************************)
(* C13  The loaded-from-MQTT flag.                                         *)
(***************************************************************************)
\* this step is an update_from_mqtt call for channel gpio that returns True
UpdateSucceeds(gpio) ==
    /\ call.op = "idle"
    /\ call'.op = "update_from_mqtt"
    /\ call'.gpio = gpio
    /\ ret' = RetBool(TRUE)

\* the flag of a channel after a step is true exactly when it was true
\* before or the step is a successful update of that channel
FlagFollowsSuccess ==
    \A gpio \in {18, 19} :
        mqtt_loaded'[gpio] = (mqtt_loaded[gpio] \/ UpdateSucceeds(gpio))

\* is_loaded_from_mqtt returns the flag, False for a channel without flag
IsLoadedReturnsFlag ==
    call.op = "is_loaded_from_mqtt" =>
        ret = RetBool(call.gpio \in {18, 19} /\ mqtt_loaded[call.gpio])

\* get_pwm_for_percent returns the duty that the table and the percent
\* determine, whatever the flag is
GetIgnoresFlag ==
    GetOnTable => ret = RefDuty(tables[call.gpio], call.percent)

\* C13: both flags are false at construction; every step leaves the flag of
\* a channel true exactly when it was true or the step is a successful
\* update_from_mqtt of that channel, so the flag is true exactly when some
\* update of the channel has succeeded, a rejected update never sets it and
\* nothing resets it; is_loaded_from_mqtt returns it; and the value
\* get_pwm_for_percent returns is determined by the table and the percent.
C13_FlagIffAnUpdateSucceeded ==
    /\ mqtt_loaded = (18 :> FALSE) @@ (19 :> FALSE)
    /\ [][FlagFollowsSuccess]_vars
    /\ [](IsLoadedReturnsFlag /\ GetIgnoresFlag)

\* an update of channel 19 with a JSON object is rejected after an update of
\* channel 18 has succeeded: the flag of 18 is true, the flag of 19 is false
C13_Witness ==
    /\ call = Call("update_from_mqtt", 19, 0)
    /\ payload.kind = "object"
    /\ ret = RetBool(FALSE)
    /\ mqtt_loaded = (18 :> TRUE) @@ (19 :> FALSE)

(***************************************************************************)
(* C14  Table replacement seen by a concurrent reader.                     *)
(***************************************************************************)
\* the table update_from_mqtt installs for a payload that it accepts
Validated(data) == BuildTable(data.entries, 1, EmptyTable).table

\* every entry of the table is in range and there are two or more
CompleteTable(table) ==
    /\ Cardinality(DOMAIN table) >= 2
    /\ \A d \in DOMAIN table :
          0 <= d /\ d <= 100 /\ 0 <= table[d] /\ table[d] <= 12 * VoltScale

\* the tables a channel can hold between updates: the default one and the
\* validated table of every payload
InstalledTables ==
    {PWM_CALIBRATION_GPIO18, PWM_CALIBRATION_GPIO19}
    \cup {Validated(data) : data \in {o \in ConcPayloads : o.kind = "object"}}

\* C14: while update_from_mqtt runs for a channel, at every step, the table
\* of the channel is the one from before the call or the complete validated
\* table of the payload; the dict a concurrent get_pwm_for_percent takes
\* for its interpolation is such a table, with two or more points, all in
\* range, and never a partly built one; and the duty it returns is the
\* interpolation on that table.
C14_ReaderSeesOldOrNewTable ==
    /\ writer.pc \in {"loop", "assign", "flag", "done"} /\ writer.gpio \in DOMAIN tables
         => /\ tables[writer.gpio] \in {writer.old, Validated(writer.data)}
            /\ CompleteTable(tables[writer.gpio])
    /\ reader.pc \in {"compute", "done"} /\ reader.gpio \in DOMAIN tables
         => /\ reader.table \in InstalledTables
            /\ CompleteTable(reader.table)
    /\ reader.pc = "done" /\ reader.gpio \in DOMAIN tables
         => reader.ret = RefDuty(reader.table, reader.percent)

\* the reader took the default table of channel 18 for 60 percent, and the
\* writer has since built and assigned the three points of a payload: the
\* reader computes on the complete old table
C14_Witness ==
    /\ reader.pc = "done"
    /\ reader.gpio = 18
    /\ reader.table = PWM_CALIBRATION_GPIO18
    /\ reader.ret = RefDuty(PWM_CALIBRATION_GPIO18, 60 * PercentScale)
    /\ writer.pc = "flag"
    /\ writer.gpio = 18
    /\ tables[18] = (0 :> Volt(0, 0)) @@ (50 :> Volt(5, 5)) @@ (100 :> Volt(10, 0))

(***************************************************************************)
(* C15  The smoothing step of read_all_power_filtered.                     *)
(***************************************************************************)
\* the call just made is read_all_power_filtered
Filtered == scall.op = "read_all_power_filtered"

\* the fractions a and b differ by more than w
DifferByMoreThan(a, b, w) ==
    Abs(a.num * b.den - b.num * a.den) > w * a.den * b.den

\* the four branches in their order, for the prior smoothed power and the
\* raw power of a channel
RefEma(prior, raw) ==
    IF raw.num = 0 THEN Rat(0, 1)
    ELSE IF prior.num = 0 /\ raw.num > 0 THEN raw
    ELSE IF DifferByMoreThan(raw, prior, 50) THEN raw
    ELSE Rat(3 * raw.num * prior.den + 7 * prior.num * raw.den, 10 * raw.den * prior.den)

\* n is an integer nearest to the fraction x
Nearest(n, x) == 2 * Abs(n * x.den - x.num) <= x.den

\* C15: after every read_all_power_filtered call the smoothed power of every
\* channel is: 0 when the raw power is 0; else the raw power when the prior
\* smoothed power is 0; else the raw power when the two differ by more than
\* 50; else 0.3 * raw + 0.7 * prior, also at a difference of exactly 50; and
\* the value published is the smoothed power rounded to an integer.  So raw
\* 0, 45, 46 from a smoothed power of 0 gives 0, 45, 45.3, published 0, 45, 45.
C15_SmoothingFollowsFourBranches ==
    Filtered =>
        \A ch \in Channels :
            LET raw == scall.locals.raw[ch]
                prior == scall.locals.prior[ch]
            IN  /\ ema_power[ch] = RefEma(prior, raw)
                /\ Nearest(readings[ch], ema_power[ch])
                /\ (prior = Rat(0, 1) /\ raw = Rat(0, 1))
                     => (ema_power[ch] = Rat(0, 1) /\ readings[ch] = 0)
                /\ (prior = Rat(0, 1) /\ raw = Rat(45, 1))
                     => (ema_power[ch] = Rat(45, 1) /\ readings[ch] = 45)
                /\ (prior = Rat(45, 1) /\ raw = Rat(46, 1))
                     => (ema_power[ch] = Rat(453, 10) /\ readings[ch] = 45)
                /\ (prior = Rat(46, 1) /\ raw = Rat(96, 1))
                     => ema_power[ch] = Rat(61, 1)

\* the third read of channel 0 gives 46 W on a smoothed power of 45 W: the
\* smoothed power is 45.3 W and 45 is published
C15_Witness ==
    /\ Filtered
    /\ reads = 3
    /\ scall.locals.prior[0] = Rat(45, 1)
    /\ scall.locals.raw[0] = Rat(46, 1)
    /\ ema_power[0] = Rat(453, 10)
    /\ readings[0] = 45

(***************************************************************************)
(* C16  ZERO and TRACKING.                                                 *)
(***************************************************************************)
\* the ADC can deliver a batch with which the next read_all_power_filtered
\* leaves channel ch in ZERO (zero TRUE) or in TRACKING (zero FALSE)
CanReach(ch, zero) ==
    \E samples \in MonitorBatches(ch) :
        LET r == ReadPower(ch, bias_voltage[ch], samples)
        IN  (EmaStep(ema_power[ch], Rat(r.num, r.den)).num = 0) = zero

\* C16: after every read_all_power_filtered call, for every channel, the
\* smoothed power is 0 exactly when the raw power read in that call is 0,
\* whatever it was before; a raw power of 0 publishes 0; a raw power other
\* than 0 on a smoothed power of 0 publishes the raw power rounded; a
\* smoothed power other than 0 is never moved to 0 by smoothing; and between
\* calls both ZERO and TRACKING can be reached from either.
C16_ZeroIffRawZero ==
    /\ Filtered =>
          \A ch \in Channels :
              LET raw == scall.locals.raw[ch]
                  prior == scall.locals.prior[ch]
              IN  /\ (ema_power[ch].num = 0) = (raw.num = 0)
                  /\ raw.num = 0 => readings[ch] = 0
                  /\ (raw.num # 0 /\ prior.num = 0)
                       => (ema_power[ch] = raw /\ Nearest(readings[ch], raw))
                  /\ raw.num # 0 => readings[ch] > 0
    /\ scall.op = "idle" =>
          \A ch \in Channels : CanReach(ch, TRUE) /\ CanReach(ch, FALSE)

\* channel 0 reads 0 W on a smoothed power of 45.3 W and is in ZERO at once,
\* while channel 1 reads 45 W on a smoothed power of 0 and publishes 45
C16_Witness ==
    /\ Filtered
    /\ scall.locals.prior[0] = Rat(453, 10)
    /\ scall.locals.raw[0] = Rat(0, 1)
    /\ ema_power[0] = Rat(0, 1)
    /\ readings[0] = 0
    /\ scall.locals.prior[1] = Rat(0, 1)
    /\ scall.locals.raw[1] = Rat(45, 1)
    /\ readings[1] = 45

(***************************************************************************)
(* C17  The clamps of read_power.                                          *)
(***************************************************************************)
\* the call just made is read_power and it returned a number
PowerRead == scall.op = "read_power" /\ sret.kind = "duty"

\* the RMS voltage of the batch read, in sample units, with the bias the
\* sensor uses
RmsRead ==
    CalculateRms(scall.locals.samples, BiasIfTruthy(bias_voltage[scall.channel])).num

\* current * 230 * factor in watts: the RMS voltage times 5 A/V, times
\* 230 V, times 0.85 on channel 1
RefScaledPower ==
    Rat(RmsRead * 5 * 230 * (IF scall.channel = 1 THEN 85 ELSE 100), SampleScale * 100)

\* C17: read_power returns exactly 0 when the power after all scaling is
\* below 3 W, exactly 0 when it is above 500 W, and that power unchanged
\* otherwise, also at exactly 3 W and at exactly 500 W; so what it returns
\* is 0 or in [3, 500].
C17_ClampsApplyToScaledPower ==
    PowerRead =>
        LET p == RefScaledPower
        IN  /\ scall.locals.power = p
            /\ p.num < 3 * p.den => sret = RetNumber(0, 1)
            /\ p.num > 500 * p.den => sret = RetNumber(0, 1)
            /\ (3 * p.den <= p.num /\ p.num <= 500 * p.den) => sret = RetNumber(p.num, p.den)
            /\ \/ sret.num = 0
               \/ 3 * sret.den <= sret.num /\ sret.num <= 500 * sret.den

\* channel 1 reads an RMS voltage of 10000 units, 0.5115 V: 2.5575 A,
\* 588.2 W before the factor and exactly 500 W after it, which is returned
C17_Witness ==
    /\ PowerRead
    /\ scall.channel = 1
    /\ scall.locals.samples = Wave(Offset, 10000, SamplesPerRead)
    /\ scall.locals.power = Rat(500, 1)
    /\ sret = RetNumber(500, 1)

(***************************************************************************)
(* C18  Which bias a read subtracts.                                       *)
(***************************************************************************)
\* the call just made is read_current or read_power
SensorRead == scall.op \in {"read_current", "read_power"}

\* the RMS voltage of the batch read when the bias subtracted is b
RmsWith(b) == CalculateRms(scall.locals.samples, b).num

\* the read used the bias b
ReadUsed(b) ==
    /\ scall.op = "read_current" => sret = RetNumber(RmsWith(b) * 5, 1)
    /\ scall.op = "read_power" =>
          scall.locals.power =
              Rat(RmsWith(b) * 5 * 230 * (IF scall.channel = 1 THEN 85 ELSE 100),
                  SampleScale * 100)

\* no read changes a stored bias
ReadsKeepBias == scall'.op # "calibrate_bias" => bias_voltage' = bias_voltage

\* C18 as claimed: once calibrate_bias has stored a bias for a channel,
\* every read_current and read_power of that channel subtracts the stored
\* bias, whatever value was stored; the mean of the filtered samples is used
\* only where calibrate_bias has not run; and no read changes the stored bias.
C18_StoredBiasIsSubtracted ==
    /\ [](SensorRead => ReadUsed(bias_voltage[scall.channel]))
    /\ [][ReadsKeepBias]_vars

\* C18, the part the code keeps: a stored bias other than 0.0 is subtracted
\* by every read of the channel; the mean of the filtered samples is used
\* where no bias is stored and where the stored bias is 0.0; and no read
\* changes the stored bias.
C18_NonZeroStoredBiasIsSubtracted ==
    /\ [](SensorRead =>
            LET stored == bias_voltage[scall.channel]
            IN  ReadUsed(IF stored.set /\ stored.v # Rat(0, 1) THEN stored ELSE NoBias))
    /\ [][ReadsKeepBias]_vars

\* a sensor with the bias 1000 stored reads a wave around 1100: the 100 units
\* count as signal
C18_Witness ==
    /\ scall = SCall("read_current", 0, [samples |-> Wave(Offset + 100, 765, SamplesPerRead)])
    /\ bias_voltage[0] = Bias(Rat(Offset, 1))
    /\ sret = RetNumber(RmsWith(Bias(Rat(Offset, 1))) * 5, 1)
    /\ sret # RetNumber(RmsWith(NoBias) * 5, 1)

(***************************************************************************)
(* C19                                                                     *)
(***************************************************************************)
\* a calculate_rms call has run; its arguments and what the filter passed
\* on are in the frame
RmsCalled == scall.op = "calculate_rms"

\* the number of samples for which pred holds
CountOf(samples, pred(_)) == Cardinality({i \in 1..Len(samples) : pred(samples[i])})

\* filtered is samples in ascending order without its t smallest and its t
\* largest: filtered[i] is the (i + t)-th smallest sample
TrimmedBy(samples, filtered, t) ==
    /\ Len(filtered) = Len(samples) - 2 * t
    /\ \A i \in 1..Len(filtered) :
           /\ CountOf(samples, LAMBDA s : s < filtered[i]) <= i + t - 1
           /\ CountOf(samples, LAMBDA s : s <= filtered[i]) >= i + t

\* a spike of the 200-sample signal: 50 units or more from 0 V, the wave
\* itself staying within 2 units
IsHighSpike(s) == s >= 50
IsLowSpike(s) == s <= 0 - 50

\* C19: the outlier filter passes a batch of fewer than 10 samples on
\* unchanged; of a batch of n >= 10 samples it passes on the sorted batch
\* without t = max(1, floor(n * 10 / 100)) samples at each end, which are
\* n - 2t > 0 samples; and of a batch of 200 samples with at most 5 high and
\* at most 5 low spikes no spike is passed on.
C19_FilterTrimsBothEnds ==
    RmsCalled =>
        LET samples == scall.locals.samples
            filtered == scall.locals.filtered
            n == Len(samples)
            t == IF (n * 10) \div 100 < 1 THEN 1 ELSE (n * 10) \div 100
        IN  /\ n < 10 => filtered = samples
            /\ n >= 10 =>
                   /\ TrimmedBy(samples, filtered, t)
                   /\ Len(filtered) = n - 2 * t
                   /\ Len(filtered) > 0
            /\ (/\ n = 200
                /\ CountOf(samples, IsHighSpike) <= 5
                /\ CountOf(samples, IsLowSpike) <= 5) =>
                   \A i \in 1..Len(filtered) :
                       ~IsHighSpike(filtered[i]) /\ ~IsLowSpike(filtered[i])

\* a batch of 200 samples with 5 high and 5 low spikes went through the
\* filter, which passed 160 samples on
C19_Witness ==
    /\ RmsCalled
    /\ scall.locals.samples = SpikedSignal(5, 5)
    /\ CountOf(scall.locals.samples, IsHighSpike) = 5
    /\ CountOf(scall.locals.samples, IsLowSpike) = 5
    /\ Len(scall.locals.filtered) = 160
    /\ sret = RetNumber(1, 1)

(***************************************************************************)
(* C20                                                                     *)
(***************************************************************************)
\* C20: calculate_rms of an empty sample list returns exactly 0.0, whether
\* the bias argument is None or a number; it raises nothing.
C20_EmptyBatchGivesZero ==
    (RmsCalled /\ Len(scall.locals.samples) = 0) =>
        /\ sret = RetNumber(0, 1)
        /\ sret.kind # "raise"

\* calculate_rms([], bias) was called with a bias that is a number, and
\* returned 0.0
C20_Witness ==
    /\ RmsCalled
    /\ scall.locals.samples = << >>
    /\ scall.locals.bias = Bias(Rat(Offset, 1))
    /\ sret = RetNumber(0, 1)

(***************************************************************************)
(* C22                                                                     *)
(***************************************************************************)
\* neighbouring points (by duty) have voltages that rise by 0.001 V or more
WellSeparated(pts) ==
    \A i \in 1..(Len(pts) - 1) : (pts[i + 1][2] - pts[i][2]) * 1000 >= VoltScale

\* The calibration curve: the piecewise linear function through the points.
\* The duty num/den lies on the segment from pts[i] to pts[i + 1] and the
\* curve has the voltage v there:
\*   (v - v_i) / (v_i+1 - v_i) = (duty - d_i) / (d_i+1 - d_i)
OnSegment(pts, i, num, den, v) ==
    /\ pts[i][1] * den <= num
    /\ num <= pts[i + 1][1] * den
    /\ Rat(v - pts[i][2], pts[i + 1][2] - pts[i][2])
         = Rat(num - pts[i][1] * den, den * (pts[i + 1][1] - pts[i][1]))

ScanOfCall ==
    LET points == SortedItems(tables[call.gpio])
        target == ClampTarget(TargetVoltage(call.percent), points)
        scan == ScanLoop(points, target, 1, points[1], points[1])
    IN  [lower |-> scan.lower, upper |-> scan.upper, target |-> target]

\* the call takes the interpolation branch: the two voltages are 0.001 V
\* or more apart
InterpolationBranch == ~RefDegenerate(ScanOfCall.lower, ScanOfCall.upper)

\* C27: for channels 18 and 19, after any updates, get_pwm_for_percent
\* returns for every percent a duty between the smallest and the largest
\* duty of the table, so between 0 and 100; and where it interpolates,
\* lower.voltage <= target <= upper.voltage and lower.duty <= upper.duty,
\* so the ratio (target - lower.voltage) / (upper.voltage - lower.voltage)
\* is between 0 and 1.
C27_DutyWithinTableDuties ==
    GetOnTable =>
        LET duties == DOMAIN tables[call.gpio]
            lower == ScanOfCall.lower
            upper == ScanOfCall.upper
            target == ScanOfCall.target
        IN  /\ ret.kind = "duty"
            /\ SetMin(duties) * ret.den <= ret.num
            /\ ret.num <= SetMax(duties) * ret.den
            /\ 0 <= ret.num
            /\ ret.num <= 100 * ret.den
            /\ InterpolationBranch =>
                   /\ lower[2] <= target
                   /\ target <= upper[2]
                   /\ lower[1] <= upper[1]
                   /\ 0 <= target - lower[2]
                   /\ target - lower[2] <= upper[2] - lower[2]

\* a call that interpolates on a table installed by an update whose
\* voltages fall as the duty rises from 50 to 100, with a percent above 100
C27_Witness ==
    /\ GetOnTable
    /\ mqtt_loaded[call.gpio]
    /\ ~NonDecreasing(RefPoints(tables[call.gpio]))
    /\ call.percent > 100 * PercentScale
    /\ InterpolationBranch
    /\ ret.kind = "duty"
    /\ ret.den # 1

(***************************************************************************)
(* C28                                                                     *)
(***************************************************************************)
\* a <= b for two returned duties: by their whole parts, then by their
\* fractional parts
DutyLeq(a, b) ==
    \/ a.num \div a.den < b.num \div b.den
    \/ /\ a.num \div a.den = b.num \div b.den
       /\ (a.num % a.den) * b.den <= (b.num % b.den) * a.den

\* C28: on a channel whose table has voltages non-decreasing in duty
\* (equal and nearly equal neighbours included), get_pwm_for_percent is
\* non-decreasing in the percent: what it returns for any percent p1 at or
\* below the percent of a call is at or below what the call returns.
C28_MonotoneInPercent ==
    (GetOnTable /\ NonDecreasing(RefPoints(tables[call.gpio]))) =>
        /\ ret.kind = "duty"
        /\ \A p1 \in Percents :
               p1 <= call.percent =>
                   LET r1 == GetPwmForPercent(tables, call.gpio, p1)
                   IN  r1.kind = "duty" /\ DutyLeq(r1, ret)

\* a call on a table installed by an update, with two neighbours less than
\* 0.001 V apart, whose target lies above both; a smaller percent returns
\* a strictly smaller duty
C28_Witness ==
    /\ GetOnTable
    /\ mqtt_loaded[call.gpio]
    /\ NonDecreasing(RefPoints(tables[call.gpio]))
    /\ ~WellSeparated(RefPoints(tables[call.gpio]))
    /\ InterpolationBranch
    /\ \E p1 \in Percents :
           /\ p1 < call.percent
           /\ ~DutyLeq(ret, GetPwmForPercent(tables, call.gpio, p1))

(***************************************************************************)
(* C30                                                                     *)
(***************************************************************************)
\* a step that is an update_from_mqtt call on gpio
UpdateStepOn(gpio) ==
    call.op = "idle" /\ call'.op = "update_from_mqtt" /\ call'.gpio = gpio

\* an update on one channel leaves the table and the flag of every other
\* channel as they were
OtherChannelsKept ==
    \A gpio \in Gpios :
        UpdateStepOn(gpio) =>
            \A other \in {18, 19} \ {gpio} :
                /\ tables'[other] = tables[other]
                /\ mqtt_loaded'[other] = mqtt_loaded[other]
                /\ order'[other] = order[other]

\* the module-level tables hold the items written in the source
DefaultsAreHardcoded ==
    /\ defaults[18] = PWM_CALIBRATION_GPIO18
    /\ defaults[19] = PWM_CALIBRATION_GPIO19

\* a call of one of the module-level helpers
LegacyCalled == call.op \in {"percent_to_pwm", "percent_to_pwm_gpio18", "percent_to_pwm_gpio19"}

\* the helpers return the interpolation over the hardcoded tables
LegacyUsesHardcoded ==
    /\ call.op \in {"percent_to_pwm", "percent_to_pwm_gpio18"} =>
           ret = RefDuty(PWM_CALIBRATION_GPIO18, call.percent)
    /\ call.op = "percent_to_pwm_gpio19" =>
           ret = RefDuty(PWM_CALIBRATION_GPIO19, call.percent)

\* C30: an update_from_mqtt call on one channel, accepted or rejected, leaves
\* the other channel's table and flag unchanged; the module-level default
\* tables keep their hardcoded items through every call; and percent_to_pwm,
\* percent_to_pwm_gpio18 and percent_to_pwm_gpio19 return the interpolation
\* over the hardcoded tables whatever the manager holds.
C30_UpdatesAreIsolated ==
    /\ [](DefaultsAreHardcoded /\ LegacyUsesHardcoded)
    /\ [][OtherChannelsKept]_vars

\* percent_to_pwm was called after an update replaced the table of channel
\* 18 only; it returns another duty than the manager does for that percent
C30_Witness ==
    /\ call.op = "percent_to_pwm"
    /\ mqtt_loaded[18]
    /\ ~mqtt_loaded[19]
    /\ tables[18] # PWM_CALIBRATION_GPIO18
    /\ tables[19] = PWM_CALIBRATION_GPIO19
    /\ ret.kind = "duty"
    /\ ret # GetPwmForPercent(tables, 18, call.percent)

(***************************************************************************)
(* C29                                                                     *)
(***************************************************************************)
\* a <= b for two fractions
RatLeq(a, b) == a.num * b.den <= b.num * a.den

\* x lies between a and b, whichever of the two is the larger
RatBetween(x, a, b) ==
    \/ RatLeq(a, x) /\ RatLeq(x, b)
    \/ RatLeq(b, x) /\ RatLeq(x, a)

IterationStep == loop'.iterations = loop.iterations + 1

\* every buffer holds at most 5 readings
BuffersBounded ==
    \A ch \in DOMAIN current_samples : Len(current_samples[ch]) <= 5

\* An iteration that read a value for a channel puts it at the end of the
\* channel's buffer, behind the readings the buffer held, in their order; of
\* 5 readings held, the first, which is the oldest, is dropped.  An iteration
\* whose read failed leaves the buffer as it is.
FifoStep ==
    IterationStep =>
        \A ch \in Channels :
            LET old == current_samples[ch]
                new == current_samples'[ch]
            IN  IF ch \in DOMAIN loop'.readings
                THEN /\ new[Len(new)] = loop'.readings[ch]
                     /\ Len(old) < 5 =>
                            /\ Len(new) = Len(old) + 1
                            /\ \A i \in 1..Len(old) : new[i] = old[i]
                     /\ Len(old) = 5 =>
                            /\ Len(new) = 5
                            /\ \A i \in 1..4 : new[i] = old[i + 1]
                ELSE new = old

\* C21: after every iteration of the current loop each channel's buffer
\* holds at most 5 readings, which are the values read most recently, in the
\* order they arrived; a reading that arrives at a full buffer evicts the
\* oldest one.
C21_BufferIsBoundedFifo ==
    /\ []BuffersBounded
    /\ [][FifoStep]_vars

\* the first five iterations read 45, 45, 45, 46, 46 W on channel 0 (their
\* median 45 was published at the fifth); the sixth read 47 W and the first
\* 45 is gone
C21_Witness ==
    /\ loop.iterations = 6
    /\ loop.readings = (0 :> 47) @@ (1 :> 7)
    /\ current_samples[0] = <<45, 45, 46, 46, 47>>
    /\ current_samples[1] = <<0, 0, 0, 0, 7>>
    /\ Len(published) >= 1
    /\ published[1].channel = 0
    /\ published[1].value = 45

(***************************************************************************)
(* C24                                                                     *)
(***************************************************************************)
\* an iteration that ended with a publish check (sample_count started anew)
CheckStep == IterationStep /\ loop'.sample_count = 0

\* the positions in the log of the messages of a channel
PublishesOf(log, ch) == {i \in 1..Len(log) : log[i].channel = ch}

\* m is the element at index len // 2 of the sorted buffer: fewer than
\* len // 2 + 1 readings lie below it and at least len // 2 + 1 do not
\* exceed it
IsMedianOf(m, samples) ==
    LET k == (Len(samples) \div 2) + 1
    IN  /\ \E i \in 1..Len(samples) : samples[i] = m
        /\ Cardinality({i \in 1..Len(samples) : samples[i] < m}) < k
        /\ Cardinality({i \in 1..Len(samples) : samples[i] <= m}) >= k

\* the messages the step added to the log
NewMessages == SubSeq(published', Len(published) + 1, Len(published'))

\* At a check a channel with readings is published exactly when it has no
\* earlier publish, or its median differs from the value published last, or
\* 60 seconds have passed since that publish.  The message carries the
\* median as decimal text and the time of the check.  Nothing is published
\* for a channel without readings, or between checks.
PolicyStep ==
    /\ IterationStep => (CheckStep <=> loop'.iterations % 5 = 0)
    /\ IterationStep /\ ~CheckStep => published' = published
    /\ CheckStep =>
        \A ch \in Channels :
            LET buffer  == current_samples'[ch]
                earlier == PublishesOf(published, ch)
                added   == PublishesOf(NewMessages, ch)
                last    == published[SetMax(earlier)]
            IN  /\ Cardinality(added) <= 1
                /\ buffer = << >> => added = {}
                /\ buffer # << >> =>
                     \E m \in 45..47 \cup {0, 7} :
                        /\ IsMedianOf(m, buffer)
                        /\ added # {} <=>
                              \/ earlier = {}
                              \/ m # last.value
                              \/ now' - last.time >= 60 * TicksPerSecond
                        /\ \A i \in added :
                              /\ NewMessages[i].value = m
                              /\ NewMessages[i].payload = StrOfInt(m)
                              /\ NewMessages[i].time = now'

\* two publishes of a channel that follow one another and carry the same
\* value are at least 60 seconds apart
SameValueInARowIsSpaced ==
    \A ch \in Channels :
        \A i, j \in PublishesOf(published, ch) :
            (/\ i < j
             /\ ~\E k \in PublishesOf(published, ch) : i < k /\ k < j
             /\ published[i].value = published[j].value)
            => published[j].time - published[i].time >= 60 * TicksPerSecond

\* C24 (amended): at each publish check, every 5 iterations, a channel's
\* median is published iff it is the channel's first publish, or differs from
\* the value published last, or at least 60 seconds have passed since the
\* channel's last publish; so the same value is never published twice in a
\* row within 60 seconds, and a channel with readings is published again at
\* the first check 60 seconds or more after its last publish.
C24_PublishPolicy ==
    /\ []SameValueInARowIsSpaced
    /\ [][PolicyStep]_vars

\* C24 (as stated): the same value is never published twice within 60
\* seconds, whatever was published in between.
C24_SameValueNeverTwiceWithin60s ==
    \A ch \in Channels :
        \A i, j \in PublishesOf(published, ch) :
            (i < j /\ published[i].value = published[j].value)
            => published[j].time - published[i].time >= 60 * TicksPerSecond

\* channel 0 was published and, at the check exactly 60 seconds later, was
\* published again with the value unchanged and nothing published in between
C24_Witness ==
    \E i, j \in PublishesOf(published, 0) :
        /\ i < j
        /\ ~\E k \in PublishesOf(published, 0) : i < k /\ k < j
        /\ published[i].value = published[j].value
        /\ published[j].time - published[i].time = 60 * TicksPerSecond
        /\ loop.iterations >= 10
        /\ now = published[j].time

(***************************************************************************)
(* C23                                                                     *)
(***************************************************************************)
\* the duty sent last to the pin of a GPIO is 0
CommandedZero(gpio) == dac_output.duty[gpio] = RetNumber(0, 1)

\* C23: in the routing bridge, whenever the configured source of a GPIO is
\* "off", the duty cycle commanded to the hardware for that GPIO is 0,
\* whatever calibration table a table message installed on the GPIO.
C23_OffCommandsZero ==
    \A gpio \in {18, 19} :
        (dac_msg.kind # "none" /\ gpio_config[gpio] = "off") => CommandedZero(gpio)

(***************************************************************************)
(* C26                                                                     *)
(***************************************************************************)
\* the value a GPIO is to follow: the stored value of its source, 0 for "off"
RoutedValue(gpio) ==
    IF gpio_config[gpio] = "off" THEN 0 ELSE sources[gpio_config[gpio]]

\* C26: while the routing bridge runs, after start() and after every
\* handled message, accepted or rejected, the duty last commanded for each
\* GPIO is get_pwm_for_percent(gpio, v) under the installed table, where v is
\* the stored value of the GPIO's source, or 0 when the source is "off"; the
\* stored values lie within [0, 100] and the source of a GPIO is one of
\* power, intake, exhaust, test, off.
C26_OutputFollowsRouting ==
    /\ \A gpio \in {18, 19} : gpio_config[gpio] \in VALID_SOURCES
    /\ DOMAIN sources = VALID_SOURCES \ {"off"}
    /\ \A source \in DOMAIN sources :
           0 <= sources[source] /\ sources[source] <= 100 * PercentScale
    /\ dac_running =>
           /\ dac_output.handle
           /\ \A gpio \in {18, 19} :
                  dac_output.duty[gpio] = GetPwmForPercent(tables, gpio, RoutedValue(gpio))

\* the running bridge has just handled a message on off/set, which raised
\* KeyError; GPIO 18 follows `test` at 45.5 percent through a table loaded
\* from MQTT, GPIO 19 is off
C26_Witness ==
    /\ dac_running
    /\ dac_msg.kind = "set" /\ dac_msg.source = "off" /\ dac_msg.exc = "KeyError"
    /\ mqtt_loaded[18]
    /\ gpio_config[18] = "test"
    /\ sources["test"] = 45 * PercentScale + PercentScale \div 2
    /\ dac_output.duty[18] # RetNumber(0, 1)
    /\ gpio_config[19] = "off"

(***************************************************************************)
(* C25                                                                     *)
(***************************************************************************)
\* stop() of the bridge has completed
HrvStopped == hrv_msg.kind # "none" /\ ~hrv_running
DacStopped == dac_msg.kind # "none" /\ ~dac_running

\* the value written last to each output is low, or duty 0, and the chip
\* is closed
OutputsAtZero ==
    /\ HrvStopped => /\ ~hrv_output.handle
                     /\ hrv_output.digital = 0
                     /\ hrv_output.pwm[18] = 0 /\ hrv_output.pwm[19] = 0
    /\ DacStopped => /\ ~dac_output.handle
                     /\ CommandedZero(18) /\ CommandedZero(19)

\* after stop() no step, be it a second stop() or a request, writes to an
\* output, and a second stop() raises nothing
NothingWrittenAfterStop ==
    /\ HrvStopped => hrv_output' = hrv_output
    /\ DacStopped => dac_output' = dac_output
    /\ HrvStopped /\ hrv_msg'.kind = "stop" => hrv_msg'.exc = ""
    /\ DacStopped /\ dac_msg'.kind = "stop" => dac_msg'.exc = ""

\* C25: after stop() of a bridge has completed, the value written last to
\* each PWM output is duty 0 and the digital output is low; a second stop()
\* raises nothing and changes nothing; a set_pwm, set_gpio or set_digital
\* request handled after stop() changes no output.
C25_ShutdownLeavesOutputsAtZero ==
    /\ []OutputsAtZero
    /\ [][NothingWrittenAfterStop]_vars

\* both bridges are stopped; the simple bridge has since handled a request
\* for 60 percent on GPIO 18, the routing bridge, whose GPIO 18 follows
\* `test` through a table that has no point at duty 0, a value for `test`
C25_Witness ==
    /\ HrvStopped /\ DacStopped
    /\ hrv_msg.kind = "pwm" /\ hrv_msg.gpio = 18 /\ hrv_msg.text = <<"6", "0">>
    /\ hrv_output.pwm[18] = 0
    /\ dac_msg.kind = "set"
    /\ mqtt_loaded[18] /\ gpio_config[18] = "test"
    /\ sources["test"] = 45 * PercentScale + PercentScale \div 2
    /\ CommandedZero(18)

====
